---- MODULE Spec2Model ----
(***************************************************************************)
(* OneClip licensing system: the license / device-activation authority.   *)
(* The persistent store is four tables (licenses, device_activations,     *)
(* revoked_licenses, activation_history); every handler is one            *)
(* transaction on its own connection.  Tables are sets of rows, the       *)
(* history is the sequence of rows in insertion order.  SQL NULL is the   *)
(* empty sequence, a present value v is <<v>>.  Strings the code inspects *)
(* character by character (emails, plan names) are sequences of           *)
(* one-character strings.  Time is counted in days.                       *)
(***************************************************************************)
EXTENDS Integers, Sequences, FiniteSets, TLC

\* ------------------------------------------------------------------ bounds
MaxSteps == 4       \* history rows written plus days elapsed, in a run
MaxQuotaSteps == 5  \* the same, in the runs of SpecQuota
MaxConcSteps == 3   \* the same, in the runs of SpecConc
MaxFleetSteps == 6  \* the same, in the runs of SpecFleet
MaxRevokeSteps == 2  \* the same, in the runs of SpecRevoke
MaxRegistrySteps == 4  \* the same, in the runs of SpecRegistry
MaxConsoleSteps == 4  \* the same, in the runs of SpecConsole
MaxPurgeSteps == 3  \* the same, in the runs of SpecPurge
MaxLifecycleSteps == 3  \* the same, in the runs of SpecLifecycle
MaxAtomicSteps == 2  \* the same, in the runs of SpecAtomic
MaxCapSteps == 4  \* the same, in the runs of SpecCap
MaxCodesSteps == 2  \* the same, in the runs of SpecCodes
MaxTwinSteps == 2  \* the same, in the runs of SpecTwin
MaxOrphanSteps == 3  \* the same, in the runs of SpecOrphan
MaxLeakSteps == 2  \* the same, in the runs of SpecLeak

\* ------------------------------------------------------- program constants
default_device_limit == 5
MonthlyDays == 31
YearlyDays == 365

NULL == <<>>
Some(v) == <<v>>
IsNull(x) == x = <<>>
Val(x) == x[1]

\* ------------------------------------------------------------------ strings
Uppers == <<"A","B","C","D","E","F","G","H","I","J","K","L","M",
            "N","O","P","Q","R","S","T","U","V","W","X","Y","Z">>
Lowers == <<"a","b","c","d","e","f","g","h","i","j","k","l","m",
            "n","o","p","q","r","s","t","u","v","w","x","y","z">>
Digits == {"0","1","2","3","4","5","6","7","8","9"}
Range(s) == {s[i] : i \in DOMAIN s}
Letters == Range(Uppers) \cup Range(Lowers)
Whitespace == {" "}

UpperSet == Range(Uppers)
LowerOf == [c \in UpperSet |-> Lowers[CHOOSE i \in DOMAIN Uppers : Uppers[i] = c]]
LowerChar(c) == IF c \in UpperSet THEN LowerOf[c] ELSE c

\* str.lower()
Lower(s) == [i \in DOMAIN s |-> LowerChar(s[i])]

\* str.strip()
RECURSIVE LStrip(_)
LStrip(s) == IF s # <<>> /\ Head(s) \in Whitespace THEN LStrip(Tail(s)) ELSE s
RECURSIVE RStrip(_)
RStrip(s) ==
    IF s # <<>> /\ s[Len(s)] \in Whitespace
    THEN RStrip(SubSeq(s, 1, Len(s) - 1))
    ELSE s
Strip(s) == RStrip(LStrip(s))

S_monthly == <<"m","o","n","t","h","l","y">>
S_yearly == <<"y","e","a","r","l","y">>
S_lifetime == <<"l","i","f","e","t","i","m","e">>

\* a pattern that every text matches
AnyEmail(email) == TRUE
\* is_valid_email: ^[a-zA-Z0-9._%+-]+@[a-zA-Z0-9.-]+\.[a-zA-Z]{2,}$
LocalChars == Letters \cup Digits \cup {".", "_", "%", "+", "-"}
DomainChars == Letters \cup Digits \cup {".", "-"}
AllIn(s, lo, hi, cs) == \A k \in lo..hi : s[k] \in cs
is_valid_email(email) ==
    \E i, j \in 1..Len(email) :
        /\ 1 < i /\ i + 1 < j /\ j + 2 <= Len(email)
        /\ email[i] = "@" /\ email[j] = "."
        /\ AllIn(email, 1, i - 1, LocalChars)
        /\ AllIn(email, i + 1, j - 1, DomainChars)
        /\ AllIn(email, j + 1, Len(email), Letters)

\* The emails requests carry, and str.lower() of each, computed once.
E_user == <<"u","@","x",".","i","o">>
E_upper == <<"U","@","X",".","i","o">>
E_other == <<"v","@","x",".","i","o">>
Emails == {E_user, E_upper, E_other}
\* a text that is no email
E_bad == <<"u","@","x">>
\* plan names as requests spell them
P_Monthly == <<" ","M","o","n","t","h","l","y"," ">>
P_YEARLY == <<"Y","E","A","R","L","Y">>
P_weekly == <<"w","e","e","k","l","y">>
LowerOfEmail == [e \in Emails |-> Lower(e)]

\* ------------------------------------------------------------------- state
VARIABLES
    licenses,            \* table licenses
    device_activations,  \* table device_activations
    revoked_licenses,    \* table revoked_licenses
    activation_history,  \* table activation_history, in insertion order
    payment_orders,      \* table payment_orders
    now,                 \* the UTC clock, in days
    conns                \* the connections of the requests being served

vars == <<licenses, device_activations, revoked_licenses, activation_history,
          payment_orders, now, conns>>

NoDevice == ""

\* What a handler leaves behind: its reply and the four tables as committed.
Out(res, L, D, R, H) ==
    [res |-> res, licenses |-> L, device_activations |-> D,
     revoked_licenses |-> R, activation_history |-> H]
\* A handler that returns without writing.
Refuse(res) ==
    Out(res, licenses, device_activations, revoked_licenses, activation_history)
\* The replies that report success to the caller.
Valid(res) == res \in {"Ok", "Heartbeat", "Activated"}

\* conn.commit(): the handler's writes become the store
Commit(out) ==
    /\ licenses' = out.licenses
    /\ device_activations' = out.device_activations
    /\ revoked_licenses' = out.revoked_licenses
    /\ activation_history' = out.activation_history
    /\ UNCHANGED <<payment_orders, now, conns>>

\* get_connection() opens a connection for every call; two requests are
\* served at a time at most.
ConnIds == {"c1", "c2"}
Mac == [device_name |-> "mac", ip_address |-> "ip1"]
Pc == [device_name |-> "pc", ip_address |-> "ip2"]
\* A connection: the handler it serves (op) and the statement the handler
\* executes next (pc), the request, the snapshot its reads see, what its
\* SELECTs fetched, the rows it has written and not yet committed with the
\* row locks it holds for them, and the reply once the handler returned.
IdleConn ==
    [op |-> "", pc |-> "idle", code |-> "", email |-> <<>>, device |-> NoDevice,
     client |-> Mac, snap_licenses |-> {}, snap_devices |-> {},
     lic |-> <<>>, count |-> <<>>, new_devices |-> {}, new_history |-> <<>>,
     license_id |-> "", reason |-> "", locks |-> {}, set_status |-> <<>>,
     put_record |-> FALSE, del_record |-> FALSE, res |-> "", failed_at |-> "",
     open |-> FALSE, order_id |-> ""]
\* return mysql.connector.connect(**self.db_config): a new open connection
get_connection == [IdleConn EXCEPT !.open = TRUE]

Init ==
    /\ licenses = {}
    /\ device_activations = {}
    /\ revoked_licenses = {}
    /\ activation_history = <<>>
    /\ payment_orders = {}
    /\ now = 0
    /\ conns = [c \in ConnIds |-> IdleConn]


\* ------------------------------------------------------------ code generator
CHARSET ==
    <<"A","B","C","D","E","F","G","H","J","K","L","M","N","P","Q","R",
      "S","T","U","V","W","X","Y","Z","2","3","4","5","6","7","8","9">>
CHARSET_LENGTH == Len(CHARSET)
\* int(time.time() * 1000) % (36 ** 6) and uuid.uuid4().int % (36 ** 5), in
\* the part of their ranges where combined stays below 2^31
Timestamps == {0, 7, 34}
RandomParts == {0, 10, 31, 36^5 - 1}
\* the loop of generate_short_id: n characters of combined, least
\* significant last
RECURSIVE ShortIdDigits(_, _)
ShortIdDigits(combined, n) ==
    IF n = 0 THEN <<>>
    ELSE Append(ShortIdDigits(combined \div CHARSET_LENGTH, n - 1),
                CHARSET[(combined % CHARSET_LENGTH) + 1])
generate_short_id(timestamp, random_part) ==
    ShortIdDigits(timestamp * (36^5) + random_part, 11)
\* hashlib.sha256(short_id).hexdigest()[0:8] as four bytes: a function of the
\* characters of short_id and their positions; the model keeps that and puts
\* a small mixing function in the place of SHA-256
CharCode(ch) == CHOOSE i \in 1..Len(CHARSET) : CHARSET[i] = ch
RECURSIVE Mix(_, _, _)
Mix(short_id, k, i) ==
    IF k = 0 THEN 17 * i
    ELSE (Mix(short_id, k - 1, i) * 31 + CharCode(short_id[k]) * (k + i)) % 256
sha256_bytes(short_id) == [i \in 1..4 |-> Mix(short_id, Len(short_id), i)]
\* a checksum of three characters
short_checksum(short_id) ==
    IF Len(short_id) # 11 THEN <<>>
    ELSE [i \in 1..3 |-> CHARSET[(sha256_bytes(short_id)[i] % CHARSET_LENGTH) + 1]]
\* calculate_checksum(short_id)
calculate_checksum(short_id) ==
    IF Len(short_id) # 11 THEN <<>>
    ELSE [i \in 1..4 |-> CHARSET[(sha256_bytes(short_id)[i] % CHARSET_LENGTH) + 1]]
\* f"{short_id[:5]}-{short_id[5:10]}-{short_id[10:11]}{checksum}"
FormatCode(short_id, checksum) ==
    SubSeq(short_id, 1, 5) \o <<"-">> \o SubSeq(short_id, 6, 10) \o <<"-">>
        \o SubSeq(short_id, 11, 11) \o checksum
generate_activation_code(timestamp, random_part) ==
    FormatCode(generate_short_id(timestamp, random_part),
               calculate_checksum(generate_short_id(timestamp, random_part)))
GeneratedCodes ==
    {generate_activation_code(t, r) : t \in Timestamps, r \in RandomParts}

\* ---------------------------------------------------------- License Registry
\* generate_license_with_email: plan normalisation and duration
normalized_plan(plan) == Lower(Strip(plan))
KnownPlans == {S_monthly, S_yearly, S_lifetime}
Truthy(days) == ~IsNull(days) /\ Val(days) # 0
\* a resolution without plan defaults
KeepDays(nplan, days) == days
ResolveDays(nplan, days) ==
    IF nplan = S_monthly /\ ~Truthy(days) THEN Some(MonthlyDays)
    ELSE IF nplan = S_yearly /\ ~Truthy(days) THEN Some(YearlyDays)
    ELSE days
\* an expiry that is never set
NoExpiry(nplan, days, t) == NULL
ComputeValidUntil(nplan, days, t) ==
    IF Truthy(days) /\ nplan # S_lifetime THEN Some(t + Val(days)) ELSE NULL

\* INSERT INTO licenses: license_id and activation_code are unique keys
LicenseRow(license_id, activation_code, email, nplan, device_cap, valid_until) ==
    [license_id |-> license_id, activation_code |-> activation_code,
     email |-> email, plan |-> nplan, device_limit |-> device_cap,
     issued_at |-> now, valid_until |-> valid_until, status |-> "active",
     user_hint |-> NULL]
LicenseKeyClash(license_id, activation_code) ==
    \E l \in licenses :
        l.license_id = license_id \/ l.activation_code = activation_code

\* generate_license_with_email(plan, email, device_cap, days); license_id and
\* activation_code are the values its random generators draw.
generate_license_with_email(plan, email, device_cap, days, license_id, activation_code) ==
    LET nplan == normalized_plan(plan)
        until == ComputeValidUntil(nplan, ResolveDays(nplan, days), now)
    IN  IF ~is_valid_email(email) THEN Refuse("InvalidEmail")
        ELSE IF nplan \notin KnownPlans THEN Refuse("InvalidPlan")
        ELSE IF LicenseKeyClash(license_id, activation_code) THEN Refuse("StoreError")
        ELSE Out("Ok",
                 licenses \cup {LicenseRow(license_id, activation_code, email,
                                           nplan, device_cap, until)},
                 device_activations, revoked_licenses, activation_history)

\* ------------------------------------------------- Device Activation Ledger
\* the same lookup without its status condition
LicenseByCode(code) == {l \in licenses : l.activation_code = code}
\* SELECT ... FROM licenses WHERE activation_code = %s AND status = 'active'
ActiveLicenseByCode(code) ==
    {l \in licenses : l.activation_code = code /\ l.status = "active"}
\* cursor.fetchone() of that query
FetchLicense(code) == CHOOSE l \in ActiveLicenseByCode(code) : TRUE
\* SELECT is_active FROM device_activations WHERE license_id = %s AND device_id = %s
DeviceRows(license_id, device_id) ==
    {r \in device_activations : r.license_id = license_id /\ r.device_id = device_id}
\* SELECT COUNT(*) FROM device_activations WHERE license_id = %s AND is_active = 1
ActiveDeviceCount(license_id) ==
    Cardinality({r \in device_activations :
                    r.license_id = license_id /\ r.is_active = 1})
\* a validity check that lets every license pass
NeverExpired(l) == FALSE
\* now_utc > valid_until, for a license whose valid_until is set
IsExpired(l) == ~IsNull(l.valid_until) /\ now > Val(l.valid_until)
\* the comparison without lower()
ExactMismatch(l, email) == l.email # email
\* result['email'].lower() != email.lower()
EmailMismatch(l, email) == LowerOfEmail[l.email] # LowerOfEmail[email]
\* the quota test with > in place of >=
QuotaExceededStrictly(l) == ActiveDeviceCount(l.license_id) > l.device_limit
\* current_devices >= result['device_limit']
QuotaReached(l) == ActiveDeviceCount(l.license_id) >= l.device_limit

HistoryRow(license_id, action, device_id) ==
    [license_id |-> license_id, action |-> action, device_id |-> device_id]
\* a handler that writes no history
NoLog(license_id, action, device_id) == activation_history
\* an INSERT that takes the place of the newest entry
Relog(license_id, action, device_id) ==
    IF activation_history = <<>>
    THEN <<HistoryRow(license_id, action, device_id)>>
    ELSE [activation_history EXCEPT ![Len(activation_history)] =
             HistoryRow(license_id, action, device_id)]
\* INSERT INTO activation_history
Log(license_id, action, device_id) ==
    Append(activation_history, HistoryRow(license_id, action, device_id))
\* an insert that writes is_active = 0
SuspendedDeviceRow(license_id, device_id, client) ==
    [license_id |-> license_id, device_id |-> device_id,
     device_name |-> client.device_name, ip_address |-> client.ip_address,
     last_seen_at |-> now, is_active |-> 0]
\* INSERT INTO device_activations (..., last_seen_at, is_active) VALUES (..., now, 1)
DeviceRow(license_id, device_id, client) ==
    [license_id |-> license_id, device_id |-> device_id,
     device_name |-> client.device_name, ip_address |-> client.ip_address,
     last_seen_at |-> now, is_active |-> 1]
\* a heartbeat that writes is_active as well
TouchAndSuspend(license_id, device_id, client) ==
    {IF r.license_id = license_id /\ r.device_id = device_id
     THEN [r EXCEPT !.last_seen_at = now, !.device_name = client.device_name,
                    !.ip_address = client.ip_address, !.is_active = 0]
     ELSE r : r \in device_activations}
\* UPDATE device_activations SET last_seen_at, device_name, ip_address WHERE key
TouchDevice(license_id, device_id, client) ==
    {IF r.license_id = license_id /\ r.device_id = device_id
     THEN [r EXCEPT !.last_seen_at = now, !.device_name = client.device_name,
                    !.ip_address = client.ip_address]
     ELSE r : r \in device_activations}

\* verify_license_with_email: the license, email and validity checks
LicenseCheck(code, email) ==
    IF ActiveLicenseByCode(code) = {} THEN "CodeNotFound"
    ELSE IF EmailMismatch(FetchLicense(code), email) THEN "EmailMismatch"
    ELSE IF IsExpired(FetchLicense(code)) THEN "Expired"
    ELSE "Ok"

\* a test of device_id that every request passes
AnyDevice(device_id) == TRUE
\* if device_id:
DeviceGiven(device_id) == device_id # NoDevice
\* a test of the fetched row that every row passes
AnyRow(rows) == rows # {}
\* if existing_device['is_active'] == 1:
HasActiveRow(rows) == \E r \in rows : r.is_active = 1

\* verify_license_with_email(activation_code, email, device_id, device_name, ip)
verify_license_with_email(code, email, device_id, client) ==
    IF LicenseCheck(code, email) # "Ok" THEN Refuse(LicenseCheck(code, email))
    ELSE IF ~DeviceGiven(device_id) THEN Refuse("Ok")
    ELSE LET l == FetchLicense(code)
             lid == l.license_id
             rows == DeviceRows(lid, device_id)
         IN  IF rows # {}
             THEN IF HasActiveRow(rows)
                  THEN Out("Heartbeat", licenses,
                           TouchDevice(lid, device_id, client),
                           revoked_licenses, Log(lid, "heartbeat", device_id))
                  ELSE Refuse("DeviceSuspended")
             ELSE IF QuotaReached(l) THEN Refuse("QuotaExceeded")
             ELSE Out("Activated", licenses,
                      device_activations \cup {DeviceRow(lid, device_id, client)},
                      revoked_licenses, Log(lid, "activate", device_id))

\* UPDATE device_activations SET is_active = %s WHERE license_id, device_id
SetActive(license_id, device_id, flag) ==
    {IF r.license_id = license_id /\ r.device_id = device_id
     THEN [r EXCEPT !.is_active = flag] ELSE r : r \in device_activations}
\* cursor.rowcount of that UPDATE: the rows whose value changed
RowsChanged(license_id, device_id, flag) ==
    Cardinality({r \in DeviceRows(license_id, device_id) : r.is_active # flag})
\* DELETE FROM device_activations WHERE license_id = %s AND device_id = %s
RemoveDevice(license_id, device_id) ==
    device_activations \ DeviceRows(license_id, device_id)

\* the "error" text of a failed verification, in translation
ErrorOf(res) ==
    CASE res = "CodeNotFound" -> "activation code does not exist or is disabled"
      [] res = "EmailMismatch" -> "email does not match the activation code"
      [] res = "Expired" -> "activation code has expired"
      [] res = "DeviceSuspended" -> "device is suspended, contact the administrator"
      [] res = "QuotaExceeded" -> "device limit reached"
      [] OTHER -> "license verification failed"
\* jsonify({'success': ..., 'message': ..., 'code': ...}), status
Reply(status, success, message, code) ==
    [status |-> status, success |-> success, message |-> message, code |-> code]
\* POST /api/verify-license-3: the response to the caller
verify_license(license, email, device_id, client) ==
    IF license = "" THEN Reply(400, FALSE, "activation code is empty", "MISSING_LICENSE")
    ELSE IF Strip(email) = <<>>
         THEN Reply(400, FALSE, "email is empty", "MISSING_EMAIL")
    ELSE IF device_id = NoDevice
         THEN Reply(400, FALSE, "device id is empty", "MISSING_DEVICE_ID")
    ELSE LET result == verify_license_with_email(license, Strip(email), device_id, client)
         IN  IF Valid(result.res)
             THEN Reply(200, TRUE, "license verified", "SUCCESS")
             ELSE Reply(400, FALSE, ErrorOf(result.res), "INVALID_LICENSE")

\* a cancel that takes the device's row whatever its state
cancel_any_row(license_id, device_id) ==
    IF DeviceRows(license_id, device_id) # {}
    THEN Out("Ok", licenses, RemoveDevice(license_id, device_id),
             revoked_licenses, Log(license_id, "cancel", device_id))
    ELSE Refuse("NotFoundOrInactive")
\* EnhancedLicenseManager.cancel_device_activation(license_id, device_id)
manager_cancel_device_activation(license_id, device_id) ==
    IF \E r \in DeviceRows(license_id, device_id) : r.is_active = 1
    THEN Out("Ok", licenses, RemoveDevice(license_id, device_id),
             revoked_licenses, Log(license_id, "cancel", device_id))
    ELSE Refuse("NotFoundOrInactive")
\* POST /api/cancel-activation
cancel_device_activation(code, email, device_id) ==
    IF LicenseCheck(code, email) # "Ok" THEN Refuse(LicenseCheck(code, email))
    ELSE manager_cancel_device_activation(FetchLicense(code).license_id, device_id)

\* The transaction of /api/suspend-device and /api/restore-device once the
\* license is checked: flag is the is_active value written, action the
\* history action logged
FlipRow(lid, device_id, flag, action) ==
    IF DeviceRows(lid, device_id) = {} THEN Refuse("NotFound")
    ELSE IF RowsChanged(lid, device_id, flag) = 0 THEN Refuse("NoRowChanged")
    ELSE Out("Ok", licenses, SetActive(lid, device_id, flag),
             revoked_licenses, Log(lid, action, device_id))
\* POST /api/suspend-device and /api/restore-device
FlipDevice(code, email, device_id, flag, action) ==
    IF LicenseCheck(code, email) # "Ok" THEN Refuse(LicenseCheck(code, email))
    ELSE FlipRow(FetchLicense(code).license_id, device_id, flag, action)
suspend_device(code, email, device_id) ==
    FlipDevice(code, email, device_id, 0, "suspend")
restore_device(code, email, device_id) ==
    FlipDevice(code, email, device_id, 1, "restore")

\* The transaction of /api/delete-device once the license is checked
DeleteRow(lid, device_id) ==
    IF DeviceRows(lid, device_id) = {} THEN Refuse("NotFound")
    ELSE Out("Ok", licenses, RemoveDevice(lid, device_id),
             revoked_licenses, Log(lid, "delete", device_id))
\* POST /api/delete-device
delete_device(code, email, device_id) ==
    IF LicenseCheck(code, email) # "Ok" THEN Refuse(LicenseCheck(code, email))
    ELSE DeleteRow(FetchLicense(code).license_id, device_id)

\* EnhancedLicenseManager.deactivate_device and activate_device, and
\* POST /api/admin/activate-device: the row is looked up by license_id and
\* device_id, cursor.rowcount is not tested
SetDevice(license_id, device_id, flag, action) ==
    IF DeviceRows(license_id, device_id) = {} THEN Refuse("NotFound")
    ELSE Out("Ok", licenses, SetActive(license_id, device_id, flag),
             revoked_licenses, Log(license_id, action, device_id))
deactivate_device(license_id, device_id) ==
    SetDevice(license_id, device_id, 0, "deactivate")
activate_device(license_id, device_id) ==
    SetDevice(license_id, device_id, 1, "renew")
admin_activate_device(license_id, device_id) ==
    SetDevice(license_id, device_id, 1, "renew")
\* POST /api/admin/deactivate-device: the UPDATE, then the test of rowcount
admin_deactivate_device(license_id, device_id) ==
    IF RowsChanged(license_id, device_id, 0) = 0 THEN Refuse("NotFound")
    ELSE Out("Ok", licenses, SetActive(license_id, device_id, 0),
             revoked_licenses, Log(license_id, "deactivate", device_id))
\* POST /api/admin/delete-device
admin_delete_device(license_id, device_id) == DeleteRow(license_id, device_id)

\* ------------------------------------------------------ license revocation
\* license_id is the key of revoked_licenses
RevokedKeyTaken(license_id) ==
    \E r \in revoked_licenses : r.license_id = license_id
\* a plain INSERT INTO revoked_licenses
InsertRevocation(license_id, reason, revoked_by) ==
    revoked_licenses
        \cup {[license_id |-> license_id, reason |-> reason, revoked_by |-> revoked_by]}
\* INSERT INTO revoked_licenses ... ON DUPLICATE KEY UPDATE reason, revoked_by
UpsertRevocation(license_id, reason, revoked_by) ==
    IF RevokedKeyTaken(license_id)
    THEN {IF r.license_id = license_id
          THEN [r EXCEPT !.reason = reason, !.revoked_by = revoked_by]
          ELSE r : r \in revoked_licenses}
    ELSE revoked_licenses
            \cup {[license_id |-> license_id, reason |-> reason, revoked_by |-> revoked_by]}
\* UPDATE licenses SET status = %s WHERE license_id = %s
SetStatus(license_id, status) ==
    {IF l.license_id = license_id THEN [l EXCEPT !.status = status] ELSE l :
        l \in licenses}
\* a revocation that also writes is_active = 0 on the license's devices
revoke_and_deactivate(license_id, reason, revoked_by) ==
    IF ~\E l \in licenses : l.license_id = license_id THEN Refuse("NotFound")
    ELSE Out("Ok", SetStatus(license_id, "revoked"),
             {IF r.license_id = license_id THEN [r EXCEPT !.is_active = 0] ELSE r :
                 r \in device_activations},
             UpsertRevocation(license_id, reason, revoked_by),
             Log(license_id, "revoke", NoDevice))
\* EnhancedLicenseManager.revoke_license(license_id, reason, revoked_by)
revoke_license(license_id, reason, revoked_by) ==
    IF ~\E l \in licenses : l.license_id = license_id THEN Refuse("NotFound")
    ELSE Out("Ok", SetStatus(license_id, "revoked"), device_activations,
             UpsertRevocation(license_id, reason, revoked_by),
             Log(license_id, "revoke", NoDevice))

\* POST /api/admin/restore
admin_restore_license(license_id) ==
    Out("Ok", SetStatus(license_id, "active"), device_activations,
        {r \in revoked_licenses : r.license_id # license_id}, activation_history)

\* DELETE FROM activation_history WHERE license_id = %s
HistoryWithout(license_id) ==
    SelectSeq(activation_history, LAMBDA h : h.license_id # license_id)
\* a purge of the license row alone
delete_license_row(license_id) ==
    Out("Ok", {l \in licenses : l.license_id # license_id},
        device_activations, revoked_licenses, activation_history)
\* POST /api/admin/delete: four DELETEs and one commit
admin_delete_license(license_id) ==
    Out("Ok",
        {l \in licenses : l.license_id # license_id},
        {r \in device_activations : r.license_id # license_id},
        {r \in revoked_licenses : r.license_id # license_id},
        HistoryWithout(license_id))

\* --------------------------------------------------------- extend validity
\* IFNULL(a, b), DATE_ADD(t, INTERVAL days DAY), UTC_TIMESTAMP()
IFNULL(a, b) == IF IsNull(a) THEN b ELSE a
DATE_ADD(t, days) == IF IsNull(t) THEN NULL ELSE Some(Val(t) + days)
UTC_TIMESTAMP == Some(now)
\* SET valid_until = IFNULL(DATE_ADD(UTC_TIMESTAMP(), INTERVAL %s DAY),
\*                         DATE_ADD(valid_until, INTERVAL %s DAY))
ExtendedUntil(l, days) ==
    IFNULL(DATE_ADD(UTC_TIMESTAMP, days), DATE_ADD(l.valid_until, days))
\* POST /api/admin/extend-validity
admin_extend_validity(license_id, days) ==
    Out("Ok",
        {IF l.license_id = license_id
         THEN [l EXCEPT !.valid_until = ExtendedUntil(l, days)] ELSE l : l \in licenses},
        device_activations, revoked_licenses, activation_history)

\* POST /api/admin/update-device-cap:
\* UPDATE licenses SET device_limit = %s WHERE license_id = %s
admin_update_device_cap(license_id, device_cap) ==
    Out("Ok",
        {IF l.license_id = license_id
         THEN [l EXCEPT !.device_limit = device_cap] ELSE l : l \in licenses},
        device_activations, revoked_licenses, activation_history)

\* ------------------------------------------------------------------ requests
LicenseIds == {"LIC1"}
ActivationCodes == {"K1"}
DeviceIds == {"d1", "d2", "d3"}
Reasons == {"fraud", "refund"}

\* The requests an environment sends: the devices, emails and clients they
\* carry, the plans, durations and device caps of issue requests, and the
\* length of a run (history rows written plus days elapsed).
FullEnv ==
    [license_ids |-> LicenseIds, codes |-> ActivationCodes,
     steps |-> MaxSteps, devices |-> DeviceIds, emails |-> {E_user, E_other},
     clients |-> {Mac, Pc}, plans |-> {S_monthly, S_lifetime},
     days |-> {Some(1)}, caps |-> {1, 2}, issue_emails |-> {E_user},
     reasons |-> {"fraud"}]
\* One user with two devices on a license for a single device.
QuotaEnv ==
    [license_ids |-> LicenseIds, codes |-> ActivationCodes,
     steps |-> MaxQuotaSteps, devices |-> {"d1", "d2"}, emails |-> {E_user},
     clients |-> {Mac}, plans |-> {S_lifetime}, days |-> {NULL}, caps |-> {1},
     issue_emails |-> {E_user}, reasons |-> {"fraud"}]

\* Six devices on a license of the default device limit.
FleetEnv ==
    [license_ids |-> LicenseIds, codes |-> ActivationCodes,
     steps |-> MaxFleetSteps, devices |-> {"d1", "d2", "d3", "d4", "d5", "d6"},
     emails |-> {E_user}, clients |-> {Mac}, plans |-> {S_lifetime},
     days |-> {NULL}, caps |-> {default_device_limit},
     issue_emails |-> {E_user}, reasons |-> {"fraud"}]
\* The administration of one license: every plan and duration, two reasons,
\* one device verifying under three spellings of an email.
RegistryEnv ==
    [license_ids |-> LicenseIds, codes |-> ActivationCodes,
     steps |-> MaxRegistrySteps, devices |-> {"d1"},
     emails |-> {E_user, E_upper, E_other}, clients |-> {Mac},
     plans |-> {S_monthly, S_yearly, S_lifetime, P_Monthly, P_YEARLY, P_weekly},
     days |-> {NULL, Some(0), Some(1), Some(-1)}, caps |-> {1},
     issue_emails |-> {E_user, E_bad}, reasons |-> Reasons,
     extend_days |-> {1, 2}]

Steps(H) == Len(H) + now
\* A request is served: its handler runs and commits.
Serve(out, env) ==
    \E o \in {out} :
        /\ Steps(o.activation_history) <= env.steps
        /\ Commit(o)

\* The clock advances by a day.
Tick(env) ==
    /\ Steps(activation_history) < env.steps
    /\ now' = now + 1
    /\ UNCHANGED <<licenses, device_activations, revoked_licenses,
                   activation_history, payment_orders, conns>>

Issue(env) ==
    \E plan \in env.plans, email \in env.issue_emails, device_cap \in env.caps,
       days \in env.days, lid \in env.license_ids, code \in env.codes :
        Serve(generate_license_with_email(plan, email, device_cap, days, lid, code), env)
VerifyAndActivate(env) ==
    \E code \in env.codes, email \in env.emails,
       d \in env.devices \cup {NoDevice}, client \in env.clients :
        Serve(verify_license_with_email(code, email, d, client), env)
DeviceCancel(env) ==
    \E code \in env.codes, email \in env.emails, d \in env.devices :
        Serve(cancel_device_activation(code, email, d), env)
DeviceSuspend(env) ==
    \E code \in env.codes, email \in env.emails, d \in env.devices :
        Serve(suspend_device(code, email, d), env)
DeviceRestore(env) ==
    \E code \in env.codes, email \in env.emails, d \in env.devices :
        Serve(restore_device(code, email, d), env)
DeviceDelete(env) ==
    \E code \in env.codes, email \in env.emails, d \in env.devices :
        Serve(delete_device(code, email, d), env)
Revoke(env) ==
    \E lid \in env.license_ids, reason \in env.reasons :
        Serve(revoke_license(lid, reason, "admin"), env)
RestoreLicense(env) ==
    \E lid \in env.license_ids : Serve(admin_restore_license(lid), env)
AdminDeactivateDevice(env) ==
    \E lid \in env.license_ids, d \in env.devices :
        Serve(admin_deactivate_device(lid, d), env)
AdminActivateDevice(env) ==
    \E lid \in env.license_ids, d \in env.devices :
        Serve(admin_activate_device(lid, d), env)
AdminDeleteDevice(env) ==
    \E lid \in env.license_ids, d \in env.devices :
        Serve(admin_delete_device(lid, d), env)
ManagerDeactivate(env) ==
    \E lid \in env.license_ids, d \in env.devices :
        Serve(deactivate_device(lid, d), env)
ManagerActivate(env) ==
    \E lid \in env.license_ids, d \in env.devices :
        Serve(activate_device(lid, d), env)
Purge(env) ==
    \E lid \in env.license_ids : Serve(admin_delete_license(lid), env)
ExtendValidity(env) ==
    \E lid \in env.license_ids, days \in env.extend_days :
        Serve(admin_extend_validity(lid, days), env)

\* ----------------------------------------------------------- specification
\* Requests served one after another, each handler one committed transaction.
Next ==
    \/ Tick(FullEnv)
    \/ Issue(FullEnv)
    \/ VerifyAndActivate(FullEnv)
    \/ DeviceCancel(FullEnv)
    \/ DeviceSuspend(FullEnv)
    \/ DeviceRestore(FullEnv)
    \/ DeviceDelete(FullEnv)
    \/ Revoke(FullEnv)
    \/ RestoreLicense(FullEnv)

Spec == Init /\ [][Next]_vars

\* The device requests of one user on one license, at one instant.
NextQuota ==
    \/ Issue(QuotaEnv)
    \/ VerifyAndActivate(QuotaEnv)
    \/ DeviceCancel(QuotaEnv)
    \/ DeviceSuspend(QuotaEnv)
    \/ DeviceRestore(QuotaEnv)
    \/ DeviceDelete(QuotaEnv)

SpecQuota == Init /\ [][NextQuota]_vars

\* A fleet of devices activating and verifying on one license.
NextFleet ==
    \/ Issue(FleetEnv)
    \/ VerifyAndActivate(FleetEnv)

SpecFleet == Init /\ [][NextFleet]_vars

\* The administration of a license: issue, extend, revoke, restore, verify.
NextRegistry ==
    \/ Tick(RegistryEnv)
    \/ Issue(RegistryEnv)
    \/ ExtendValidity(RegistryEnv)
    \/ Revoke(RegistryEnv)
    \/ RestoreLicense(RegistryEnv)
    \/ VerifyAndActivate(RegistryEnv)

SpecRegistry == Init /\ [][NextRegistry]_vars

\* The administrator's console beside the user's device requests: every
\* operation that writes the history, and the purge of the license.
ConsoleEnv ==
    [license_ids |-> LicenseIds, codes |-> ActivationCodes,
     steps |-> MaxConsoleSteps, devices |-> {"d1", "d2"}, emails |-> {E_user},
     clients |-> {Mac}, plans |-> {S_lifetime}, days |-> {NULL}, caps |-> {1},
     issue_emails |-> {E_user}, reasons |-> {"fraud"}]
NextConsole ==
    \/ Issue(ConsoleEnv)
    \/ VerifyAndActivate(ConsoleEnv)
    \/ DeviceCancel(ConsoleEnv)
    \/ DeviceSuspend(ConsoleEnv)
    \/ DeviceRestore(ConsoleEnv)
    \/ DeviceDelete(ConsoleEnv)
    \/ AdminDeactivateDevice(ConsoleEnv)
    \/ AdminActivateDevice(ConsoleEnv)
    \/ AdminDeleteDevice(ConsoleEnv)
    \/ ManagerDeactivate(ConsoleEnv)
    \/ ManagerActivate(ConsoleEnv)
    \/ Revoke(ConsoleEnv)
    \/ Purge(ConsoleEnv)

SpecConsole == Init /\ [][NextConsole]_vars

\* Two licenses of one user, one of them purged by the administrator.
PurgeEnv ==
    [license_ids |-> {"LIC1", "LIC2"}, codes |-> {"K1", "K2"},
     steps |-> MaxPurgeSteps, devices |-> {"d1"}, emails |-> {E_user},
     clients |-> {Mac}, plans |-> {S_lifetime}, days |-> {NULL}, caps |-> {1},
     issue_emails |-> {E_user}, reasons |-> {"fraud"}]
NextPurge ==
    \/ Issue(PurgeEnv)
    \/ VerifyAndActivate(PurgeEnv)
    \/ Revoke(PurgeEnv)
    \/ Purge(PurgeEnv)

SpecPurge == Init /\ [][NextPurge]_vars

\* The administrator sets the device limit of a license in use: device_cap
\* is int(data.get('device_cap', 5)) of an issue or update request.
CapEnv ==
    [license_ids |-> LicenseIds, codes |-> ActivationCodes,
     steps |-> MaxCapSteps, devices |-> {"d1", "d2"}, emails |-> {E_user},
     clients |-> {Mac}, plans |-> {S_lifetime}, days |-> {NULL},
     caps |-> {0, 1, 2}, issue_emails |-> {E_user}, reasons |-> {"fraud"},
     new_caps |-> {-1, 0, 1, 2}]
UpdateDeviceCap(env) ==
    \E lid \in env.license_ids, device_cap \in env.new_caps :
        Serve(admin_update_device_cap(lid, device_cap), env)
NextCap ==
    \/ Issue(CapEnv)
    \/ VerifyAndActivate(CapEnv)
    \/ UpdateDeviceCap(CapEnv)

SpecCap == Init /\ [][NextCap]_vars

\* Licenses issued with the codes of the generator, and verified with them.
CodesEnv ==
    [license_ids |-> {"LIC1", "LIC2"}, codes |-> GeneratedCodes,
     steps |-> MaxCodesSteps, devices |-> {"d1"}, emails |-> {E_user},
     clients |-> {Mac}, plans |-> {S_lifetime}, days |-> {NULL}, caps |-> {1},
     issue_emails |-> {E_user}, reasons |-> {"fraud"}]
\* activation_code = self.generate_activation_code(), then the insert
IssueGenerated(env) ==
    \E lid \in env.license_ids, t \in Timestamps, r \in RandomParts :
        Serve(generate_license_with_email(S_lifetime, E_user, 1, NULL, lid,
                                          generate_activation_code(t, r)), env)
NextCodes ==
    \/ IssueGenerated(CodesEnv)
    \/ VerifyAndActivate(CodesEnv)

SpecCodes == Init /\ [][NextCodes]_vars

\* ------------------------------------------------- concurrent verification
\* verify_license_with_email statement by statement, each request on its own
\* connection and in its own transaction.  The connection runs with the
\* server's default isolation (REPEATABLE READ, autocommit off): its SELECTs
\* are plain consistent reads of the snapshot taken by its first SELECT and
\* take no lock; its INSERTs become visible to others at conn.commit().
Store == <<licenses, device_activations, revoked_licenses, activation_history,
          payment_orders, now>>
Return(c, res) ==
    conns' = [conns EXCEPT ![c] = [@ EXCEPT !.pc = "idle", !.res = res]]
Goto(c, pc) == conns' = [conns EXCEPT ![c].pc = pc]

\* the request arrives: conn = self.get_connection()
BeginVerify(c, code, email, device_id, client) ==
    /\ conns[c].pc = "idle"
    /\ conns' = [conns EXCEPT ![c] =
                    [get_connection EXCEPT !.op = "verify",
                                          !.pc = "select_license", !.code = code,
                                     !.email = email, !.device = device_id,
                                     !.client = client]]
    /\ UNCHANGED Store

\* SELECT ... FROM licenses WHERE activation_code = %s AND status = 'active',
\* then the email and validity checks and the test of device_id
SelectLicense(c) ==
    LET r == conns[c]
        chk == LicenseCheck(r.code, r.email)
    IN  /\ r.pc = "select_license"
        /\ conns' = [conns EXCEPT ![c] =
              IF chk # "Ok" THEN [r EXCEPT !.pc = "idle", !.res = chk]
              ELSE IF ~DeviceGiven(r.device) THEN [r EXCEPT !.pc = "idle", !.res = "Ok"]
              ELSE [r EXCEPT !.pc = "select_device",
                             !.lic = Some(FetchLicense(r.code)),
                             !.snap_licenses = licenses,
                             !.snap_devices = device_activations]]
        /\ UNCHANGED Store

\* SELECT is_active FROM device_activations WHERE license_id = %s AND device_id = %s
SelectDevice(c) ==
    LET r == conns[c]
        rows == {x \in r.snap_devices :
                    x.license_id = Val(r.lic).license_id /\ x.device_id = r.device}
    IN  /\ r.pc = "select_device"
        /\ IF rows = {} THEN Goto(c, "count_active")
           ELSE IF HasActiveRow(rows) THEN Goto(c, "update_device")
           ELSE Return(c, "DeviceSuspended")
        /\ UNCHANGED Store

\* SELECT COUNT(*) ... WHERE license_id = %s AND is_active = 1, then the
\* test current_devices >= result['device_limit']
CountActive(c) ==
    LET r == conns[c]
        n == Cardinality({x \in r.snap_devices :
                x.license_id = Val(r.lic).license_id /\ x.is_active = 1})
    IN  /\ r.pc = "count_active"
        /\ conns' = [conns EXCEPT ![c] =
              IF n >= Val(r.lic).device_limit
              THEN [r EXCEPT !.pc = "idle", !.res = "QuotaExceeded", !.count = Some(n)]
              ELSE [r EXCEPT !.pc = "insert_device", !.count = Some(n)]]
        /\ UNCHANGED Store

\* (license_id, device_id) is a unique key of device_activations: an insert
\* waits for an uncommitted row of its key and fails on a committed one
DeviceKeyLocked(c, license_id, device_id) ==
    \E o \in ConnIds \ {c} :
        /\ conns[o].pc # "idle"
        /\ \E x \in conns[o].new_devices :
              x.license_id = license_id /\ x.device_id = device_id
DeviceKeyTaken(license_id, device_id) == DeviceRows(license_id, device_id) # {}

\* an INSERT INTO device_activations into a table without a unique key
InsertDeviceUnchecked(c) ==
    LET r == conns[c]
        lid == Val(r.lic).license_id
    IN  /\ r.pc = "insert_device"
        /\ conns' = [conns EXCEPT ![c] =
              [r EXCEPT !.pc = "insert_history",
                        !.new_devices = {DeviceRow(lid, r.device, r.client)}]]
        /\ UNCHANGED Store
\* an INSERT INTO device_activations that is committed as it executes
InsertDeviceCommitted(c) ==
    LET r == conns[c]
        lid == Val(r.lic).license_id
    IN  /\ r.pc = "insert_device"
        /\ ~DeviceKeyTaken(lid, r.device)
        /\ device_activations' =
              device_activations \cup {DeviceRow(lid, r.device, r.client)}
        /\ conns' = [conns EXCEPT ![c] =
              [r EXCEPT !.pc = "insert_history",
                        !.new_devices = {DeviceRow(lid, r.device, r.client)}]]
        /\ UNCHANGED <<licenses, revoked_licenses, activation_history,
                       payment_orders, now>>
\* INSERT INTO device_activations (...) VALUES (..., 1)
InsertDevice(c) ==
    LET r == conns[c]
        lid == Val(r.lic).license_id
    IN  /\ r.pc = "insert_device"
        /\ ~DeviceKeyLocked(c, lid, r.device)
        /\ conns' = [conns EXCEPT ![c] =
              IF DeviceKeyTaken(lid, r.device)
              THEN [r EXCEPT !.pc = "idle", !.res = "StoreError"]
              ELSE [r EXCEPT !.pc = "insert_history",
                             !.new_devices = {DeviceRow(lid, r.device, r.client)}]]
        /\ UNCHANGED Store

\* UPDATE device_activations SET last_seen_at, device_name, ip_address (heartbeat)
UpdateDevice(c) ==
    /\ conns[c].pc = "update_device"
    /\ Goto(c, "insert_history")
    /\ UNCHANGED Store

\* INSERT INTO activation_history (license_id, action, device_id, ...)
InsertHistory(c) ==
    LET r == conns[c]
        action == IF r.new_devices = {} THEN "heartbeat" ELSE "activate"
    IN  /\ r.pc = "insert_history"
        /\ conns' = [conns EXCEPT ![c] =
              [r EXCEPT !.pc = "commit",
                        !.new_history =
                            <<HistoryRow(Val(r.lic).license_id, action, r.device)>>]]
        /\ UNCHANGED Store

\* conn.commit(), and the handler returns valid
CommitVerify(c, env) ==
    LET r == conns[c]
        lid == Val(r.lic).license_id
    IN  /\ r.pc = "commit"
        /\ Steps(activation_history) < env.steps
        /\ device_activations' =
              IF r.new_devices = {} THEN TouchDevice(lid, r.device, r.client)
              ELSE device_activations \cup r.new_devices
        /\ activation_history' = activation_history \o r.new_history
        /\ Return(c, IF r.new_devices = {} THEN "Heartbeat" ELSE "Activated")
        /\ UNCHANGED <<licenses, revoked_licenses, payment_orders, now>>

\* Two devices of one user verify at the same time.
ConcEnv ==
    [license_ids |-> LicenseIds, codes |-> ActivationCodes,
     steps |-> MaxConcSteps, devices |-> {"d1", "d2"}, emails |-> {E_user},
     clients |-> {Mac}, plans |-> {S_lifetime}, days |-> {NULL}, caps |-> {1, 2},
     issue_emails |-> {E_user}, reasons |-> {"fraud"}]

NextConc ==
    \/ Issue(ConcEnv)
    \/ \E c \in ConnIds, code \in ActivationCodes, email \in ConcEnv.emails,
          d \in ConcEnv.devices, client \in ConcEnv.clients :
          BeginVerify(c, code, email, d, client)
    \/ \E c \in ConnIds : SelectLicense(c)
    \/ \E c \in ConnIds : SelectDevice(c)
    \/ \E c \in ConnIds : CountActive(c)
    \/ \E c \in ConnIds : InsertDevice(c)
    \/ \E c \in ConnIds : UpdateDevice(c)
    \/ \E c \in ConnIds : InsertHistory(c)
    \/ \E c \in ConnIds : CommitVerify(c, ConcEnv)

SpecConc == Init /\ [][NextConc]_vars

\* One device verifies twice at the same time, from two clients.
TwinEnv ==
    [license_ids |-> LicenseIds, codes |-> ActivationCodes,
     steps |-> MaxTwinSteps, devices |-> {"d1"}, emails |-> {E_user},
     clients |-> {Mac, Pc}, plans |-> {S_lifetime}, days |-> {NULL}, caps |-> {2},
     issue_emails |-> {E_user}, reasons |-> {"fraud"}]
NextTwin ==
    \/ Issue(TwinEnv)
    \/ \E c \in ConnIds, code \in TwinEnv.codes, email \in TwinEnv.emails,
          d \in TwinEnv.devices, client \in TwinEnv.clients :
          BeginVerify(c, code, email, d, client)
    \/ \E c \in ConnIds : SelectLicense(c)
    \/ \E c \in ConnIds : SelectDevice(c)
    \/ \E c \in ConnIds : CountActive(c)
    \/ \E c \in ConnIds : InsertDevice(c)
    \/ \E c \in ConnIds : UpdateDevice(c)
    \/ \E c \in ConnIds : InsertHistory(c)
    \/ \E c \in ConnIds : CommitVerify(c, TwinEnv)

SpecTwin == Init /\ [][NextTwin]_vars

\* The administrator purges a license while its devices verify.  The four
\* DELETEs of admin_delete_license are current reads: they wait for the
\* uncommitted rows of the license that another connection holds, and the
\* purge is committed before that connection's next statement otherwise.
PendingWrites(license_id) ==
    \E c \in ConnIds :
        /\ conns[c].pc # "idle"
        /\ \/ \E x \in conns[c].new_devices : x.license_id = license_id
           \/ \E i \in 1..Len(conns[c].new_history) :
                 conns[c].new_history[i].license_id = license_id
PurgeBetween(env) ==
    \E lid \in env.license_ids :
        /\ ~PendingWrites(lid)
        /\ Serve(admin_delete_license(lid), env)
OrphanEnv ==
    [license_ids |-> LicenseIds, codes |-> ActivationCodes,
     steps |-> MaxOrphanSteps, devices |-> {"d1"}, emails |-> {E_user},
     clients |-> {Mac}, plans |-> {S_lifetime}, days |-> {NULL}, caps |-> {1},
     issue_emails |-> {E_user}, reasons |-> {"fraud"}]
NextOrphan ==
    \/ Issue(OrphanEnv)
    \/ \E c \in ConnIds, code \in OrphanEnv.codes, email \in OrphanEnv.emails,
          d \in OrphanEnv.devices, client \in OrphanEnv.clients :
          BeginVerify(c, code, email, d, client)
    \/ \E c \in ConnIds : SelectLicense(c)
    \/ \E c \in ConnIds : SelectDevice(c)
    \/ \E c \in ConnIds : CountActive(c)
    \/ \E c \in ConnIds : InsertDevice(c)
    \/ \E c \in ConnIds : UpdateDevice(c)
    \/ \E c \in ConnIds : InsertHistory(c)
    \/ \E c \in ConnIds : CommitVerify(c, OrphanEnv)
    \/ PurgeBetween(OrphanEnv)

SpecOrphan == Init /\ [][NextOrphan]_vars

\* ------------------------------------------------------------------ properties
LastRow == activation_history[Len(activation_history)]
ActiveIn(D, license_id) ==
    Cardinality({r \in D : r.license_id = license_id /\ r.is_active = 1})
RowsIn(D, license_id, device_id) ==
    {r \in D : r.license_id = license_id /\ r.device_id = device_id}
Unwritten(o) ==
    /\ o.licenses = licenses
    /\ o.device_activations = device_activations
    /\ o.revoked_licenses = revoked_licenses
    /\ o.activation_history = activation_history

\* C1: two first-time verifications of distinct devices on one license that
\* both counted device_limit - 1 active rows do not both succeed, and no
\* license ever has more active rows than its device_limit.
C1_OneSlotOneWinner ==
    /\ \A l \in licenses : ActiveDeviceCount(l.license_id) <= l.device_limit
    /\ \A c \in ConnIds, o \in ConnIds :
          ~ /\ c # o
            /\ conns[c].res = "Activated" /\ conns[o].res = "Activated"
            /\ conns[c].lic = conns[o].lic
            /\ conns[c].device # conns[o].device
            /\ conns[c].count = Some(Val(conns[c].lic).device_limit - 1)
            /\ conns[o].count = conns[c].count

\* C2: in every state reached by verify, cancel, suspend, restore and delete
\* requests on a license of fixed device_limit, the license has at most
\* device_limit rows with is_active = 1.
C2_ActiveWithinLimit ==
    \A l \in licenses : ActiveDeviceCount(l.license_id) <= l.device_limit

\* C3: while a license has device_limit device rows, active or suspended, a
\* first verification from a device without a row is refused with
\* QuotaExceeded.
C3_SuspendedKeepsSlot ==
    \A code \in ActivationCodes, email \in QuotaEnv.emails,
       d \in QuotaEnv.devices, client \in QuotaEnv.clients :
        (/\ LicenseCheck(code, email) = "Ok"
         /\ DeviceRows(FetchLicense(code).license_id, d) = {}
         /\ Cardinality({r \in device_activations :
                r.license_id = FetchLicense(code).license_id})
              >= FetchLicense(code).device_limit)
        => verify_license_with_email(code, email, d, client).res = "QuotaExceeded"

\* C4: on a valid license presented with its email, a verification from a
\* device with an active row succeeds whatever the number of active devices,
\* keeps every other row, keeps the row's key and is_active, and keeps the
\* active device count.
C4_HeartbeatIdempotent ==
    \A code \in ActivationCodes, email \in Emails, d \in DeviceIds,
       client \in {Mac, Pc} :
        (/\ LicenseCheck(code, email) = "Ok"
         /\ \E r \in DeviceRows(FetchLicense(code).license_id, d) :
               r.is_active = 1)
        => LET lid == FetchLicense(code).license_id
               o == verify_license_with_email(code, email, d, client)
               Key(r) == <<r.license_id, r.device_id, r.is_active>>
           IN  /\ o.res = "Heartbeat"
               /\ {Key(r) : r \in o.device_activations}
                    = {Key(r) : r \in device_activations}
               /\ Cardinality(o.device_activations) = Cardinality(device_activations)
               /\ device_activations \ DeviceRows(lid, d) \subseteq o.device_activations
               /\ ActiveIn(o.device_activations, lid) = ActiveDeviceCount(lid)
               /\ o.licenses = licenses
C4_Heartbeat ==
    /\ activation_history # <<>>
    /\ LastRow.action = "heartbeat"
    /\ ActiveDeviceCount(LastRow.license_id) >= 2
    /\ \E r \in DeviceRows(LastRow.license_id, LastRow.device_id) :
          r.is_active = 1 /\ r.device_name = Pc.device_name
    /\ \E l \in licenses : l.license_id = LastRow.license_id /\ QuotaReached(l)

\* C5: a cancel of device d followed by a verification from d frees and takes
\* again one slot: the active count drops by one with the cancel, is back at
\* its value after the verification, and d then has exactly one row, active.
C5_CancelThenReactivate ==
    [][\A code \in ActivationCodes, email \in QuotaEnv.emails,
          d \in QuotaEnv.devices, client \in QuotaEnv.clients :
           (/\ LicenseCheck(code, email) = "Ok"
            /\ activation_history' =
                  Log(FetchLicense(code).license_id, "cancel", d))
           => LET lid == FetchLicense(code).license_id
                  o == verify_license_with_email(code, email, d, client)'
              IN  /\ ActiveDeviceCount(lid)' = ActiveDeviceCount(lid) - 1
                  /\ o.res = "Activated"
                  /\ ActiveIn(o.device_activations, lid) = ActiveDeviceCount(lid)
                  /\ Cardinality(RowsIn(o.device_activations, lid, d)) = 1
                  /\ \A r \in RowsIn(o.device_activations, lid, d) : r.is_active = 1
      ]_vars

\* C6: a first verification (no row for the device) on a valid license is
\* accepted and inserts one active row and one history row exactly when the
\* number of active rows is below device_limit, and is otherwise refused with
\* QuotaExceeded with nothing written; on a license of limit 5 the sixth
\* device is refused after five have activated.
C6_FirstActivation ==
    \A code \in ActivationCodes, email \in FleetEnv.emails,
       d \in FleetEnv.devices, client \in FleetEnv.clients :
        (/\ LicenseCheck(code, email) = "Ok"
         /\ DeviceRows(FetchLicense(code).license_id, d) = {})
        => LET l == FetchLicense(code)
               o == verify_license_with_email(code, email, d, client)
           IN  IF ActiveDeviceCount(l.license_id) < l.device_limit
               THEN /\ o.res = "Activated"
                    /\ device_activations \subseteq o.device_activations
                    /\ Cardinality(o.device_activations \ device_activations) = 1
                    /\ \A r \in o.device_activations \ device_activations :
                          /\ r.license_id = l.license_id
                          /\ r.device_id = d
                          /\ r.is_active = 1
                    /\ o.activation_history =
                          Append(activation_history,
                                 HistoryRow(l.license_id, "activate", d))
               ELSE o.res = "QuotaExceeded" /\ Unwritten(o)
C6_SixthRefused ==
    \E l \in licenses :
        /\ l.device_limit = default_device_limit
        /\ ActiveDeviceCount(l.license_id) = default_device_limit
        /\ Len(activation_history) = default_device_limit
        /\ \A i \in 1..Len(activation_history) :
              activation_history[i].action = "activate"
        /\ \E d \in FleetEnv.devices :
              /\ DeviceRows(l.license_id, d) = {}
              /\ verify_license_with_email(l.activation_code, l.email, d, Mac).res
                    = "QuotaExceeded"

\* C7: a verification from a device whose row is suspended is refused with
\* DeviceSuspended and writes nothing, and a suspended row becomes active
\* only in a step that logs a restore of that device.
C7_SuspendedStaysSuspended ==
    /\ [](\A code \in ActivationCodes, email \in Emails, d \in DeviceIds,
             client \in {Mac, Pc} :
            (/\ LicenseCheck(code, email) = "Ok"
             /\ DeviceRows(FetchLicense(code).license_id, d) # {}
             /\ \A r \in DeviceRows(FetchLicense(code).license_id, d) :
                   r.is_active = 0)
            => LET o == verify_license_with_email(code, email, d, client)
               IN  o.res = "DeviceSuspended" /\ Unwritten(o))
    /\ [][\A r \in device_activations :
            (/\ r.is_active = 0
             /\ \E q \in device_activations' :
                   /\ q.license_id = r.license_id
                   /\ q.device_id = r.device_id
                   /\ q.is_active = 1)
            => activation_history' = Log(r.license_id, "restore", r.device_id)
         ]_vars
C7_SuspendedRefused ==
    /\ activation_history # <<>>
    /\ LastRow.action = "suspend"
    /\ \E l \in licenses, client \in {Mac, Pc} :
          /\ l.license_id = LastRow.license_id
          /\ LicenseCheck(l.activation_code, l.email) = "Ok"
          /\ verify_license_with_email(l.activation_code, l.email,
                                       LastRow.device_id, client).res
                = "DeviceSuspended"

\* C8: a verification with a code whose license is absent or not active is
\* refused with CodeNotFound for every email and device, devices with an
\* active row included, and writes nothing.
C8_CodeNotFound ==
    \A code \in ActivationCodes \cup {"K0"}, email \in Emails,
       d \in DeviceIds \cup {NoDevice}, client \in {Mac, Pc} :
        (\A l \in licenses : l.activation_code = code => l.status # "active")
        => LET o == verify_license_with_email(code, email, d, client)
           IN  o.res = "CodeNotFound" /\ Unwritten(o)
C8_RevokedWithActiveDevice ==
    \E l \in licenses, r \in device_activations :
        /\ l.status = "revoked"
        /\ r.license_id = l.license_id /\ r.is_active = 1
        /\ LastRow.action = "revoke"
        /\ verify_license_with_email(l.activation_code, l.email, r.device_id, Mac).res
              = "CodeNotFound"

\* C9: a verification on an active license, presented with its email, whose
\* valid_until is set and earlier than now is refused with Expired for every
\* device and writes nothing; on a license without valid_until no
\* verification is refused with Expired.
C9_Expired ==
    \A code \in ActivationCodes, email \in Emails,
       d \in DeviceIds \cup {NoDevice}, client \in {Mac, Pc} :
        ActiveLicenseByCode(code) # {}
        => LET l == FetchLicense(code)
               o == verify_license_with_email(code, email, d, client)
           IN  /\ (/\ ~IsNull(l.valid_until)
                   /\ Val(l.valid_until) < now
                   /\ ~EmailMismatch(l, email))
                  => o.res = "Expired" /\ Unwritten(o)
               /\ IsNull(l.valid_until) => o.res # "Expired"
C9_ExpiredWithActiveDevice ==
    \E l \in licenses, r \in device_activations :
        /\ l.status = "active"
        /\ ~IsNull(l.valid_until) /\ Val(l.valid_until) < now
        /\ r.license_id = l.license_id /\ r.is_active = 1
        /\ verify_license_with_email(l.activation_code, l.email, r.device_id, Mac).res
              = "Expired"
        /\ verify_license_with_email(l.activation_code, l.email, "d3", Mac).res
              = "Expired"

\* C10: a verification without device_id on a valid license reports success
\* and leaves the device ledger and the history as they were.
C10_LicenseCheckOnly ==
    \A code \in ActivationCodes, email \in Emails, client \in {Mac, Pc} :
        LicenseCheck(code, email) = "Ok"
        => LET o == verify_license_with_email(code, email, NoDevice, client)
           IN  o.res = "Ok" /\ Valid(o.res) /\ Unwritten(o)
C10_CheckedWithDevices ==
    \E l \in licenses :
        /\ device_activations # {}
        /\ ActiveDeviceCount(l.license_id) < l.device_limit
        /\ LicenseCheck(l.activation_code, l.email) = "Ok"
        /\ verify_license_with_email(l.activation_code, l.email, NoDevice, Mac).res
              = "Ok"

\* C11: the email check of a verification passes exactly when the supplied
\* email and the license's email are equal after lower-casing both, and a
\* mismatch is refused with EmailMismatch and writes nothing.
C11_EmailCaseInsensitive ==
    \A code \in ActivationCodes, email \in Emails,
       d \in RegistryEnv.devices \cup {NoDevice}, client \in RegistryEnv.clients :
        (\E l \in licenses : l.activation_code = code /\ l.status = "active")
        => LET l == FetchLicense(code)
               o == verify_license_with_email(code, email, d, client)
           IN  IF Lower(l.email) = Lower(email)
               THEN o.res # "EmailMismatch"
               ELSE o.res = "EmailMismatch" /\ Unwritten(o)
C11_OtherCaseAccepted ==
    \E l \in licenses, r \in device_activations :
        /\ l.email = E_user /\ l.status = "active"
        /\ r.license_id = l.license_id /\ r.is_active = 1
        /\ verify_license_with_email(l.activation_code, E_upper, r.device_id, Mac).res
              = "Heartbeat"
        /\ verify_license_with_email(l.activation_code, E_other, r.device_id, Mac).res
              = "EmailMismatch"

\* C12: revoking an existing license succeeds, whether or not it is revoked
\* already, and leaves it with status revoked and exactly one revocation
\* record, holding the reason of this call; revoking a revoked license with
\* the reason it has leaves licenses, records and devices as they were.
C12_RevokeIdempotent ==
    \A lid \in LicenseIds, reason \in Reasons :
        (\E l \in licenses : l.license_id = lid)
        => LET o == revoke_license(lid, reason, "admin")
               rec == [license_id |-> lid, reason |-> reason, revoked_by |-> "admin"]
           IN  /\ o.res = "Ok"
               /\ \A l \in o.licenses : l.license_id = lid => l.status = "revoked"
               /\ {r \in o.revoked_licenses : r.license_id = lid} = {rec}
               /\ Cardinality(o.revoked_licenses) <= Cardinality(licenses)
               /\ (/\ rec \in revoked_licenses
                   /\ \A l \in licenses : l.license_id = lid => l.status = "revoked")
                  => /\ o.licenses = licenses
                     /\ o.revoked_licenses = revoked_licenses
                     /\ o.device_activations = device_activations
C12_RevokedTwice ==
    /\ Len(activation_history) >= 2
    /\ LastRow.action = "revoke"
    /\ activation_history[Len(activation_history) - 1] = LastRow
    /\ Cardinality({r \in revoked_licenses : r.license_id = LastRow.license_id}) = 1
    /\ \A l \in licenses : l.license_id = LastRow.license_id => l.status = "revoked"

\* C14: a license restore reports NotFound for a license_id without a
\* license, and leaves an existing license with status active and without a
\* revocation record.
C14_RestoreNotFound ==
    \A lid \in LicenseIds \cup {"LIC0"} :
        LET o == admin_restore_license(lid)
        IN  IF \E l \in licenses : l.license_id = lid
            THEN /\ o.res = "Ok"
                 /\ \A l \in o.licenses : l.license_id = lid => l.status = "active"
                 /\ \A r \in o.revoked_licenses : r.license_id # lid
            ELSE o.res = "NotFound"

\* C15: a revocation writes only the license's status, its revocation record
\* and the history: the device rows are the same after it; and when the
\* license is restored, each of its active devices verifies as a heartbeat
\* that leaves the active device count as it was.
C15_RevokeKeepsDevices ==
    /\ [](\A lid \in LicenseIds, reason \in Reasons :
            (\E l \in licenses : l.license_id = lid)
            => LET o == revoke_license(lid, reason, "admin")
               IN  /\ o.device_activations = device_activations
                   /\ o.licenses =
                        {IF l.license_id = lid THEN [l EXCEPT !.status = "revoked"]
                         ELSE l : l \in licenses}
                   /\ \A r \in o.revoked_licenses :
                        r.license_id # lid => r \in revoked_licenses)
    /\ [][\A l \in licenses, m \in licenses' :
            (/\ l.status = "revoked" /\ m.status = "active"
             /\ m.license_id = l.license_id)
            => /\ device_activations' = device_activations
               /\ \A r \in device_activations, client \in {Mac, Pc} :
                    (/\ r.license_id = l.license_id /\ r.is_active = 1
                     /\ LicenseCheck(m.activation_code, m.email)' = "Ok")
                    => LET o == verify_license_with_email(
                                    m.activation_code, m.email, r.device_id, client)'
                       IN  /\ o.res = "Heartbeat"
                           /\ ActiveIn(o.device_activations, l.license_id)
                                = ActiveDeviceCount(l.license_id)
         ]_vars
C15_HeartbeatAfterRestore ==
    /\ Len(activation_history) >= 3
    /\ LastRow.action = "heartbeat"
    /\ activation_history[Len(activation_history) - 1].action = "revoke"
    /\ activation_history[Len(activation_history) - 2] =
          [LastRow EXCEPT !.action = "activate"]
    /\ revoked_licenses = {}

NewLicenses(o) == o.licenses \ licenses
KeyFree(lid, code) ==
    \A l \in licenses : l.license_id # lid /\ l.activation_code # code

\* C16: issuing without a duration stores valid_until = issued_at + 31 days
\* for plan monthly, issued_at + 365 days for plan yearly and no valid_until
\* for plan lifetime.
C16_PlanDefaults ==
    \A lid \in LicenseIds, code \in ActivationCodes, cap \in RegistryEnv.caps :
        KeyFree(lid, code)
        => LET Issued(plan) ==
                   generate_license_with_email(plan, E_user, cap, NULL, lid, code)
               Until(plan) == {l.valid_until : l \in NewLicenses(Issued(plan))}
               At(plan) == {l.issued_at : l \in NewLicenses(Issued(plan))}
           IN  /\ \A plan \in {S_monthly, S_yearly, S_lifetime} :
                     Issued(plan).res = "Ok" /\ At(plan) = {now}
               /\ Until(S_monthly) = {Some(now + 31)}
               /\ Until(S_yearly) = {Some(now + 365)}
               /\ Until(S_lifetime) = {NULL}
C16_MonthlyIssued ==
    \E l \in licenses :
        /\ l.plan = S_monthly
        /\ l.issued_at > 0
        /\ l.valid_until = Some(l.issued_at + 31)

\* C17: issuing a monthly or yearly license with a duration of d days,
\* d >= 0, stores valid_until = issuance instant + d days.
C17_OverrideWins ==
    \A lid \in LicenseIds, code \in ActivationCodes, cap \in RegistryEnv.caps,
       plan \in {S_monthly, S_yearly}, d \in 0..2 :
        KeyFree(lid, code)
        => LET o == generate_license_with_email(plan, E_user, cap, Some(d), lid, code)
           IN  /\ o.res = "Ok"
               /\ {l.valid_until : l \in NewLicenses(o)} = {Some(now + d)}

\* C18: after any sequence of issue and extend requests every monthly or
\* yearly license has a valid_until; only lifetime licenses have none.
C18_SubscriptionsExpire ==
    \A l \in licenses :
        IsNull(l.valid_until) => l.plan = S_lifetime
C18_ExtendedMonthly ==
    \E l \in licenses :
        /\ l.plan = S_monthly
        /\ ~IsNull(l.valid_until)
        /\ Val(l.valid_until) \notin
              {l.issued_at + 31, l.issued_at + 1, l.issued_at - 1}

\* C19: issuing with a text that is no email, or with a plan that after
\* trimming and lower-casing is none of monthly, yearly, lifetime, returns an
\* error and writes nothing; a plan that is one of them after trimming and
\* lower-casing is accepted.
C19_IssueRejects ==
    \A lid \in LicenseIds, code \in ActivationCodes, cap \in RegistryEnv.caps,
       days \in RegistryEnv.days :
        LET BadEmails == {E_bad, <<>>, <<"@","x",".","i","o">>,
                          <<"u","@","x",".","i">>, <<"u","@",".","i","o">>,
                          <<"u"," ","@","x",".","i","o">>, <<"u","x",".","i","o">>,
                          <<"u","@","x",".","i","0">>}
            BadPlans == {P_weekly, <<>>, <<"m","o","n","t","h">>,
                         <<"l","i","f","e"," ","t","i","m","e">>}
            GoodPlans == {S_monthly, S_yearly, S_lifetime, P_Monthly, P_YEARLY}
            GoodEmails == {E_user, E_upper, <<"a",".","b","+","c","@","x","-","y",".","c","o","m">>}
        IN  /\ \A email \in BadEmails, plan \in GoodPlans \cup BadPlans :
                 LET o == generate_license_with_email(plan, email, cap, days, lid, code)
                 IN  o.res = "InvalidEmail" /\ Unwritten(o)
            /\ \A email \in GoodEmails, plan \in BadPlans :
                 LET o == generate_license_with_email(plan, email, cap, days, lid, code)
                 IN  o.res = "InvalidPlan" /\ Unwritten(o)
            /\ \A email \in GoodEmails, plan \in GoodPlans :
                 generate_license_with_email(plan, email, cap, days, lid, code).res
                    \in {"Ok", "StoreError"}
C19_Rejected ==
    /\ licenses = {}
    /\ now > 0
    /\ generate_license_with_email(S_monthly, E_bad, 1, NULL, "LIC1", "K1").res
          = "InvalidEmail"
    /\ generate_license_with_email(P_weekly, E_user, 1, NULL, "LIC1", "K1").res
          = "InvalidPlan"
    /\ generate_license_with_email(P_Monthly, E_user, 1, NULL, "LIC1", "K1").res = "Ok"

\* C20: extending a license by days sets valid_until to now + days when it has
\* no valid_until, and otherwise to its valid_until + days.
C20_ExtendAdds ==
    \A l \in licenses, days \in RegistryEnv.extend_days :
        LET o == admin_extend_validity(l.license_id, days)
        IN  /\ o.res = "Ok"
            /\ o.licenses =
                 (licenses \ {l}) \cup
                 {[l EXCEPT !.valid_until =
                     IF IsNull(l.valid_until) THEN Some(now + days)
                     ELSE Some(Val(l.valid_until) + days)]}

\* ------------------------------------- concurrent revocation and restoration
\* revoke_license and admin_restore_license statement by statement, each on
\* its own connection and in its own transaction.  An UPDATE, INSERT or
\* DELETE locks the row of its key until the transaction ends, and waits
\* while another transaction holds that lock; a cycle of waits is ended by
\* the server, which rolls one of the transactions back.
LicenseKey(license_id) == <<"licenses", license_id>>
RevokedKey(license_id) == <<"revoked_licenses", license_id>>
LockHeld(c, key) == \E o \in ConnIds \ {c} : key \in conns[o].locks
Lock(r, key) == [r EXCEPT !.locks = @ \cup {key}]
\* the row lock the connection's next statement takes
NextLock(c) ==
    LET r == conns[c]
    IN  IF r.pc \in {"revoke_upsert", "restore_delete"} THEN {RevokedKey(r.license_id)}
        ELSE IF r.pc \in {"revoke_update", "restore_update"} THEN {LicenseKey(r.license_id)}
        ELSE {}
Waits(c, o) == \E key \in NextLock(c) : key \in conns[o].locks

BeginRevoke(c, license_id, reason) ==
    /\ conns[c].pc = "idle"
    /\ conns' = [conns EXCEPT ![c] =
                    [get_connection EXCEPT !.op = "revoke", !.pc = "revoke_select",
                                     !.license_id = license_id, !.reason = reason]]
    /\ UNCHANGED Store

\* SELECT 1 FROM licenses WHERE license_id = %s
RevokeSelect(c) ==
    /\ conns[c].pc = "revoke_select"
    /\ IF \E l \in licenses : l.license_id = conns[c].license_id
       THEN Goto(c, "revoke_upsert")
       ELSE Return(c, "NotFound")
    /\ UNCHANGED Store

\* an INSERT INTO revoked_licenses that is committed as it executes
RevokeUpsertCommitted(c) ==
    LET r == conns[c]
    IN  /\ r.pc = "revoke_upsert"
        /\ ~LockHeld(c, RevokedKey(r.license_id))
        /\ revoked_licenses' = UpsertRevocation(r.license_id, r.reason, "admin")
        /\ conns' = [conns EXCEPT ![c] = [r EXCEPT !.pc = "revoke_update"]]
        /\ UNCHANGED <<licenses, device_activations, activation_history,
                       payment_orders, now>>
\* INSERT INTO revoked_licenses ... ON DUPLICATE KEY UPDATE ...
RevokeUpsert(c) ==
    LET r == conns[c]
    IN  /\ r.pc = "revoke_upsert"
        /\ ~LockHeld(c, RevokedKey(r.license_id))
        /\ conns' = [conns EXCEPT ![c] =
              [Lock(r, RevokedKey(r.license_id)) EXCEPT
                  !.pc = "revoke_update", !.put_record = TRUE]]
        /\ UNCHANGED Store

\* UPDATE licenses SET status = "revoked" WHERE license_id = %s
RevokeUpdate(c) ==
    LET r == conns[c]
    IN  /\ r.pc = "revoke_update"
        /\ ~LockHeld(c, LicenseKey(r.license_id))
        /\ conns' = [conns EXCEPT ![c] =
              [Lock(r, LicenseKey(r.license_id)) EXCEPT
                  !.pc = "revoke_history", !.set_status = Some("revoked")]]
        /\ UNCHANGED Store

\* INSERT INTO activation_history (license_id, action, details)
RevokeHistory(c) ==
    LET r == conns[c]
    IN  /\ r.pc = "revoke_history"
        /\ conns' = [conns EXCEPT ![c] =
              [r EXCEPT !.pc = "commit_license",
                        !.new_history = <<HistoryRow(r.license_id, "revoke", NoDevice)>>]]
        /\ UNCHANGED Store

BeginRestore(c, license_id) ==
    /\ conns[c].pc = "idle"
    /\ conns' = [conns EXCEPT ![c] =
                    [get_connection EXCEPT !.op = "restore", !.pc = "restore_update",
                                     !.license_id = license_id]]
    /\ UNCHANGED Store

\* UPDATE licenses SET status = "active" WHERE license_id = %s
RestoreUpdate(c) ==
    LET r == conns[c]
    IN  /\ r.pc = "restore_update"
        /\ ~LockHeld(c, LicenseKey(r.license_id))
        /\ conns' = [conns EXCEPT ![c] =
              [Lock(r, LicenseKey(r.license_id)) EXCEPT
                  !.pc = "restore_delete", !.set_status = Some("active")]]
        /\ UNCHANGED Store

\* DELETE FROM revoked_licenses WHERE license_id = %s: deletes the row the
\* statement finds
RestoreDelete(c) ==
    LET r == conns[c]
    IN  /\ r.pc = "restore_delete"
        /\ ~LockHeld(c, RevokedKey(r.license_id))
        /\ conns' = [conns EXCEPT ![c] =
              [Lock(r, RevokedKey(r.license_id)) EXCEPT
                  !.pc = "commit_license",
                  !.del_record = RevokedKeyTaken(r.license_id)]]
        /\ UNCHANGED Store

\* conn.commit(): the writes of the transaction become the store and its
\* locks are released
CommitLicense(c, env) ==
    LET r == conns[c]
    IN  /\ r.pc = "commit_license"
        /\ Steps(activation_history) + Len(r.new_history) <= env.steps
        /\ licenses' =
              IF IsNull(r.set_status) THEN licenses
              ELSE SetStatus(r.license_id, Val(r.set_status))
        /\ revoked_licenses' =
              IF r.put_record THEN UpsertRevocation(r.license_id, r.reason, "admin")
              ELSE IF r.del_record
                   THEN {x \in revoked_licenses : x.license_id # r.license_id}
                   ELSE revoked_licenses
        /\ activation_history' = activation_history \o r.new_history
        /\ conns' = [conns EXCEPT ![c] =
              [r EXCEPT !.pc = "idle", !.res = "Ok", !.locks = {}]]
        /\ UNCHANGED <<device_activations, payment_orders, now>>

\* two transactions wait for each other: the server rolls one back, its
\* statement raises and the handler replies with an error
DeadlockVictim(c) ==
    /\ \E o \in ConnIds \ {c} : Waits(c, o) /\ Waits(o, c)
    /\ conns' = [conns EXCEPT ![c] =
          [@ EXCEPT !.pc = "idle", !.res = "StoreError", !.locks = {},
                    !.set_status = NULL, !.put_record = FALSE, !.del_record = FALSE]]
    /\ UNCHANGED Store

\* Two administrators revoke and restore one license at the same time.
RevokeEnv ==
    [license_ids |-> LicenseIds, codes |-> ActivationCodes,
     steps |-> MaxRevokeSteps, devices |-> {"d1"}, emails |-> {E_user},
     clients |-> {Mac}, plans |-> {S_lifetime}, days |-> {NULL}, caps |-> {1},
     issue_emails |-> {E_user}, reasons |-> Reasons]

NextRevoke ==
    \/ Issue(RevokeEnv)
    \/ \E c \in ConnIds, lid \in LicenseIds, reason \in RevokeEnv.reasons :
          BeginRevoke(c, lid, reason)
    \/ \E c \in ConnIds : RevokeSelect(c)
    \/ \E c \in ConnIds : RevokeUpsert(c)
    \/ \E c \in ConnIds : RevokeUpdate(c)
    \/ \E c \in ConnIds : RevokeHistory(c)
    \/ \E c \in ConnIds, lid \in LicenseIds : BeginRestore(c, lid)
    \/ \E c \in ConnIds : RestoreUpdate(c)
    \/ \E c \in ConnIds : RestoreDelete(c)
    \/ \E c \in ConnIds : CommitLicense(c, RevokeEnv)
    \/ \E c \in ConnIds : DeadlockVictim(c)

SpecRevoke == Init /\ [][NextRevoke]_vars

\* C13: in every committed state reached by any interleaving of license
\* revocations and restorations, a license with a revocation record has
\* status revoked.
C13_RecordOnlyIfRevoked ==
    \A r \in revoked_licenses :
        \E l \in licenses : l.license_id = r.license_id /\ l.status = "revoked"
C13_RevokedWhileRestoring ==
    \E c \in ConnIds, o \in ConnIds :
        /\ conns[c].op = "revoke" /\ conns[c].res = "Ok"
        /\ conns[o].op = "restore" /\ conns[o].res = "StoreError"
        /\ revoked_licenses # {}

\* C21: a cancel on a valid license succeeds exactly when the device has an
\* active row: it then removes that row and appends one cancel entry; with
\* no row or a suspended row it fails with NotFoundOrInactive and leaves the
\* ledger and the history unchanged.
C21_CancelNeedsActiveRow ==
    \A code \in ActivationCodes, email \in QuotaEnv.emails, d \in QuotaEnv.devices :
        LicenseCheck(code, email) = "Ok"
        => LET lid == FetchLicense(code).license_id
               o == cancel_device_activation(code, email, d)
           IN  IF \E r \in DeviceRows(lid, d) : r.is_active = 1
               THEN /\ o.res = "Ok"
                    /\ o.device_activations = device_activations \ DeviceRows(lid, d)
                    /\ o.activation_history =
                          Append(activation_history, HistoryRow(lid, "cancel", d))
                    /\ o.licenses = licenses
                    /\ o.revoked_licenses = revoked_licenses
               ELSE /\ o.res = "NotFoundOrInactive"
                    /\ Unwritten(o)
C21_CancelledBesideSuspended ==
    /\ activation_history # <<>>
    /\ LastRow.action = "cancel"
    /\ DeviceRows(LastRow.license_id, LastRow.device_id) = {}
    /\ \E r \in device_activations : r.is_active = 0

\* C22: suspending a device that is already suspended, and restoring a device
\* that is already active, report success, leave is_active as it is and
\* append one history entry.
C22_RepeatIsSuccess ==
    \A code \in ActivationCodes, email \in QuotaEnv.emails, d \in QuotaEnv.devices :
        LicenseCheck(code, email) = "Ok"
        => LET lid == FetchLicense(code).license_id
               s == suspend_device(code, email, d)
               t == restore_device(code, email, d)
           IN  /\ (\E r \in DeviceRows(lid, d) : r.is_active = 0)
                  => /\ s.res = "Ok"
                     /\ s.device_activations = device_activations
                     /\ s.activation_history =
                           Append(activation_history, HistoryRow(lid, "suspend", d))
               /\ (\E r \in DeviceRows(lid, d) : r.is_active = 1)
                  => /\ t.res = "Ok"
                     /\ t.device_activations = device_activations
                     /\ t.activation_history =
                           Append(activation_history, HistoryRow(lid, "restore", d))

\* C23: there is no transition from absent to suspended: suspend and restore
\* (of the user, the administrator and the manager) on a pair with no row
\* fail with NotFound and write nothing, a row that did not exist before a
\* step is active after it, and every suspended row has an activation of its
\* pair in the history.
C23_NoAbsentToSuspended ==
    /\ [](\A code \in ActivationCodes, email \in ConsoleEnv.emails,
             d \in ConsoleEnv.devices :
            (/\ LicenseCheck(code, email) = "Ok"
             /\ DeviceRows(FetchLicense(code).license_id, d) = {})
            => /\ suspend_device(code, email, d).res = "NotFound"
               /\ Unwritten(suspend_device(code, email, d))
               /\ restore_device(code, email, d).res = "NotFound"
               /\ Unwritten(restore_device(code, email, d)))
    /\ [](\A lid \in LicenseIds, d \in ConsoleEnv.devices :
            DeviceRows(lid, d) = {}
            => \A o \in {deactivate_device(lid, d), activate_device(lid, d),
                         admin_deactivate_device(lid, d),
                         admin_activate_device(lid, d)} :
                  o.res = "NotFound" /\ Unwritten(o))
    /\ [][\A q \in device_activations' :
            DeviceRows(q.license_id, q.device_id) = {} => q.is_active = 1]_vars
    /\ [](\A r \in device_activations :
            r.is_active = 0
            => \E i \in 1..Len(activation_history) :
                  activation_history[i] =
                      HistoryRow(r.license_id, "activate", r.device_id))
C23_SuspendedBesideAbsent ==
    \E r \in device_activations, d \in ConsoleEnv.devices :
        /\ r.is_active = 0
        /\ DeviceRows(r.license_id, d) = {}

\* C24: a delete (of the user or the administrator) removes the device's row
\* whether it is active or suspended and appends one delete entry, and with
\* no row fails with NotFound and writes nothing; after a delete every device
\* without a row can activate as a first-time device.
C24_DeleteFreesSlot ==
    /\ [](\A code \in ActivationCodes, email \in ConsoleEnv.emails,
             d \in ConsoleEnv.devices :
            LicenseCheck(code, email) = "Ok"
            => LET lid == FetchLicense(code).license_id
               IN  \A o \in {delete_device(code, email, d), admin_delete_device(lid, d)} :
                     IF DeviceRows(lid, d) # {}
                     THEN /\ o.res = "Ok"
                          /\ o.device_activations = device_activations \ DeviceRows(lid, d)
                          /\ o.activation_history =
                                Append(activation_history, HistoryRow(lid, "delete", d))
                     ELSE o.res = "NotFound" /\ Unwritten(o))
    /\ [][\A code \in ActivationCodes, email \in ConsoleEnv.emails,
             d \in ConsoleEnv.devices :
            (/\ LicenseCheck(code, email) = "Ok"
             /\ activation_history' =
                   Log(FetchLicense(code).license_id, "delete", d))
            => \A e \in ConsoleEnv.devices :
                  RowsIn(device_activations', FetchLicense(code).license_id, e) = {}
                  => verify_license_with_email(code, email, e, Mac)'.res = "Activated"
         ]_vars

\* the handler committed exactly one history entry, for this license, action
\* and device
Entry(o, lid, action, d) ==
    o.activation_history = Append(activation_history, HistoryRow(lid, action, d))
\* the handler wrote the ledger and nothing else beside its entry
LedgerOnly(o) ==
    o.licenses = licenses /\ o.revoked_licenses = revoked_licenses
\* the rows of the other pairs are as they were
OthersKept(o, lid, d) ==
    o.device_activations \ RowsIn(o.device_activations, lid, d)
        = device_activations \ DeviceRows(lid, d)

C28_AppendOnly ==
    [][\/ \E l \in licenses : \A m \in licenses' : m.license_id # l.license_id
       \/ /\ Len(activation_history') >= Len(activation_history)
          /\ SubSeq(activation_history', 1, Len(activation_history))
                = activation_history
      ]_vars
C28_GrownHistory ==
    /\ Len(activation_history) = MaxConsoleSteps
    /\ activation_history[1].action = "activate"
    /\ LastRow.action \in {"delete", "renew"}

\* the entries of a license in a history, in order
HistoryOf(H, lid) == SelectSeq(H, LAMBDA h : h.license_id = lid)
\* no table holds a row of the license
Gone(L, D, R, H, lid) ==
    /\ \A l \in L : l.license_id # lid
    /\ \A r \in D : r.license_id # lid
    /\ \A r \in R : r.license_id # lid
    /\ HistoryOf(H, lid) = <<>>

\* C29: the purge of a license commits a state without the license row and
\* without any device row, revocation record or history entry of it, and
\* with the rows and entries of every other license as they were; a step
\* that removes the license row or an entry of its history removes all.
C29_PurgeCascades ==
    /\ [](\A lid \in PurgeEnv.license_ids :
            LET o == admin_delete_license(lid)
            IN  /\ o.res = "Ok"
                /\ Gone(o.licenses, o.device_activations, o.revoked_licenses,
                        o.activation_history, lid)
                /\ \A l \in licenses : l.license_id # lid => l \in o.licenses
                /\ \A r \in device_activations :
                      r.license_id # lid => r \in o.device_activations
                /\ \A r \in revoked_licenses :
                      r.license_id # lid => r \in o.revoked_licenses
                /\ o.licenses \subseteq licenses
                /\ o.device_activations \subseteq device_activations
                /\ o.revoked_licenses \subseteq revoked_licenses
                /\ \A other \in PurgeEnv.license_ids \ {lid} :
                      HistoryOf(o.activation_history, other)
                          = HistoryOf(activation_history, other))
    /\ [][\A lid \in PurgeEnv.license_ids :
            (\/ /\ \E l \in licenses : l.license_id = lid
                /\ \A l \in licenses' : l.license_id # lid
             \/ Len(HistoryOf(activation_history', lid))
                   < Len(HistoryOf(activation_history, lid)))
            => Gone(licenses', device_activations', revoked_licenses',
                    activation_history', lid)
         ]_vars
C29_TwoLicensesInUse ==
    \E l \in licenses, m \in licenses :
        /\ l.status = "revoked" /\ m.status = "active"
        /\ \E r \in revoked_licenses : r.license_id = l.license_id
        /\ \E r \in device_activations : r.license_id = l.license_id
        /\ \E r \in device_activations : r.license_id = m.license_id
        /\ HistoryOf(activation_history, m.license_id) # <<>>

\* C30: the response of the verification endpoint to an unknown activation
\* code has the same message and code as its response to a known code sent
\* with an email that does not match.
C30_SameReply ==
    \A code \in ActivationCodes, d \in ConsoleEnv.devices :
        (/\ LicenseCheck(code, E_other) = "EmailMismatch"
         /\ \A l \in licenses : l.activation_code # "K0")
        => LET wrong_email == verify_license(code, E_other, d, Mac)
               wrong_code == verify_license("K0", E_other, d, Mac)
           IN  /\ wrong_code.message = wrong_email.message
               /\ wrong_code.code = wrong_email.code

\* ------------------------------------------ device requests beside a revoke
\* The endpoints /api/cancel-activation, /api/suspend-device,
\* /api/restore-device and /api/delete-device: the license is verified by
\* verify_license_with_email on a connection of its own, then the handler
\* opens a second connection for the ledger change, its history entry and the
\* commit.
DeviceOps == {"cancel", "suspend", "restore", "delete"}
\* the request arrives
BeginDevice(c, op, code, email, device_id) ==
    /\ conns[c].pc = "idle"
    /\ conns' = [conns EXCEPT ![c] =
                    [get_connection EXCEPT !.op = op, !.pc = "check_license",
                                     !.code = code, !.email = email,
                                     !.device = device_id]]
    /\ UNCHANGED Store
\* verification = license_manager.verify_license_with_email(activation_code, email)
CheckLicense(c) ==
    LET r == conns[c]
        verification == verify_license_with_email(r.code, r.email, NoDevice, r.client)
    IN  /\ r.pc = "check_license"
        /\ IF Valid(verification.res)
           THEN conns' = [conns EXCEPT ![c] =
                    [r EXCEPT !.pc = "apply", !.lic = Some(FetchLicense(r.code))]]
           ELSE Return(c, verification.res)
        /\ UNCHANGED Store
\* the transaction on the second connection, for verification['license_id']
DeviceChange(op, lid, device_id) ==
    CASE op = "cancel" -> manager_cancel_device_activation(lid, device_id)
      [] op = "suspend" -> FlipRow(lid, device_id, 0, "suspend")
      [] op = "restore" -> FlipRow(lid, device_id, 1, "restore")
      [] op = "delete" -> DeleteRow(lid, device_id)
ApplyDevice(c, env) ==
    LET r == conns[c]
    IN  /\ r.pc = "apply"
        /\ \E o \in {DeviceChange(r.op, Val(r.lic).license_id, r.device)} :
              /\ Steps(o.activation_history) <= env.steps
              /\ licenses' = o.licenses
              /\ device_activations' = o.device_activations
              /\ revoked_licenses' = o.revoked_licenses
              /\ activation_history' = o.activation_history
              /\ Return(c, o.res)
        /\ UNCHANGED <<payment_orders, now>>

\* One user's device requests while the administrator revokes the license.
LifecycleEnv ==
    [license_ids |-> LicenseIds, codes |-> ActivationCodes,
     steps |-> MaxLifecycleSteps, devices |-> {"d1"}, emails |-> {E_user},
     clients |-> {Mac}, plans |-> {S_lifetime}, days |-> {NULL}, caps |-> {1},
     issue_emails |-> {E_user}, reasons |-> {"fraud"}]
NextLifecycle ==
    \/ Issue(LifecycleEnv)
    \/ VerifyAndActivate(LifecycleEnv)
    \/ Revoke(LifecycleEnv)
    \/ \E c \in ConnIds, op \in DeviceOps, code \in LifecycleEnv.codes,
          email \in LifecycleEnv.emails, d \in LifecycleEnv.devices :
          BeginDevice(c, op, code, email, d)
    \/ \E c \in ConnIds : CheckLicense(c)
    \/ \E c \in ConnIds : ApplyDevice(c, LifecycleEnv)

SpecLifecycle == Init /\ [][NextLifecycle]_vars

\* C26: no step commits a change to a device row of a license that is
\* revoked when the change commits, however a cancel, suspend, restore or
\* delete is interleaved with a Revoke.
C26_NoChangeOnceRevoked ==
    [][\A r \in (device_activations' \ device_activations)
                   \cup (device_activations \ device_activations') :
          \E l \in licenses' : l.license_id = r.license_id /\ l.status = "active"
      ]_vars

\* ------------------------------------------------ failures of the store
\* A statement of a handler raises mysql.connector.Error: the handler's
\* except clause returns the failure, the connection is dropped without a
\* commit and the server rolls its transaction back.
StoreFault(c) ==
    /\ conns[c].pc # "idle"
    /\ conns' = [conns EXCEPT ![c] =
          [@ EXCEPT !.pc = "idle", !.res = "StoreError", !.failed_at = conns[c].pc,
                    !.locks = {}, !.new_devices = {}, !.new_history = <<>>,
                    !.set_status = NULL, !.put_record = FALSE, !.del_record = FALSE]]
    /\ UNCHANGED Store

\* Verifications and revocations served two at a time by a store that may
\* fail at any statement.
AtomicEnv ==
    [license_ids |-> LicenseIds, codes |-> ActivationCodes,
     steps |-> MaxAtomicSteps, devices |-> {"d1"}, emails |-> {E_user},
     clients |-> {Mac}, plans |-> {S_lifetime}, days |-> {NULL}, caps |-> {1},
     issue_emails |-> {E_user}, reasons |-> {"fraud"}]
NextAtomic ==
    \/ Issue(AtomicEnv)
    \/ \E c \in ConnIds, code \in AtomicEnv.codes, email \in AtomicEnv.emails,
          d \in AtomicEnv.devices, client \in AtomicEnv.clients :
          BeginVerify(c, code, email, d, client)
    \/ \E c \in ConnIds : SelectLicense(c)
    \/ \E c \in ConnIds : SelectDevice(c)
    \/ \E c \in ConnIds : CountActive(c)
    \/ \E c \in ConnIds : InsertDevice(c)
    \/ \E c \in ConnIds : UpdateDevice(c)
    \/ \E c \in ConnIds : InsertHistory(c)
    \/ \E c \in ConnIds : CommitVerify(c, AtomicEnv)
    \/ \E c \in ConnIds, lid \in AtomicEnv.license_ids, reason \in AtomicEnv.reasons :
          BeginRevoke(c, lid, reason)
    \/ \E c \in ConnIds : RevokeSelect(c)
    \/ \E c \in ConnIds : RevokeUpsert(c)
    \/ \E c \in ConnIds : RevokeUpdate(c)
    \/ \E c \in ConnIds : RevokeHistory(c)
    \/ \E c \in ConnIds : CommitLicense(c, AtomicEnv)
    \/ \E c \in ConnIds : StoreFault(c)

SpecAtomic == Init /\ [][NextAtomic]_vars

\* ------------------------------------------------ connections of the manager
\* The manager's handlers close their cursor on some paths and never call
\* conn.close(): after the return the connection object is unreferenced and
\* stays open until the interpreter finalises it, if it does.
Collect(c) ==
    /\ conns[c].pc = "idle"
    /\ conns[c].open
    /\ conns' = [conns EXCEPT ![c].open = FALSE]
    /\ UNCHANGED Store
LeakEnv ==
    [license_ids |-> LicenseIds, codes |-> ActivationCodes,
     steps |-> MaxLeakSteps, devices |-> {"d1"}, emails |-> {E_user},
     clients |-> {Mac}, plans |-> {S_lifetime}, days |-> {NULL}, caps |-> {1},
     issue_emails |-> {E_user}, reasons |-> {"fraud"}]
NextLeak ==
    \/ Issue(LeakEnv)
    \/ \E c \in ConnIds, code \in LeakEnv.codes, email \in LeakEnv.emails,
          d \in LeakEnv.devices, client \in LeakEnv.clients :
          BeginVerify(c, code, email, d, client)
    \/ \E c \in ConnIds : SelectLicense(c)
    \/ \E c \in ConnIds : SelectDevice(c)
    \/ \E c \in ConnIds : CountActive(c)
    \/ \E c \in ConnIds : InsertDevice(c)
    \/ \E c \in ConnIds : UpdateDevice(c)
    \/ \E c \in ConnIds : InsertHistory(c)
    \/ \E c \in ConnIds : CommitVerify(c, LeakEnv)
    \/ \E c \in ConnIds, lid \in LeakEnv.license_ids, reason \in LeakEnv.reasons :
          BeginRevoke(c, lid, reason)
    \/ \E c \in ConnIds : RevokeSelect(c)
    \/ \E c \in ConnIds : RevokeUpsert(c)
    \/ \E c \in ConnIds : RevokeUpdate(c)
    \/ \E c \in ConnIds : RevokeHistory(c)
    \/ \E c \in ConnIds : CommitLicense(c, LeakEnv)
    \/ \E c \in ConnIds : StoreFault(c)
    \/ \E c \in ConnIds : Collect(c)

SpecLeak == Init /\ [][NextLeak]_vars

\* ----------------------------------------------------------------- payments
\* create_payment and payment_notify statement by statement.  The handler
\* writes payment_orders on its own connection; generate_license_with_email
\* opens a second connection and commits the license row before it returns.
OrderIds == {"O1"}
Amounts == {0, 5}
\* INSERT INTO payment_orders (...) VALUES (..., 'pending', ...)
OrderRow(order_id, email, plan, device_cap, days, amount) ==
    [order_id |-> order_id, email |-> email, plan |-> plan,
     device_cap |-> device_cap, days |-> days, amount |-> amount,
     status |-> "pending", license_id |-> NULL, activation_code |-> NULL]
\* user_hint=f"购买订单: {order_id}" and user_hint=f"免费订单: {order_id}"
PurchaseHint(order_id) == <<"purchase", order_id>>
FreeHint(order_id) == <<"free", order_id>>
\* SELECT * FROM payment_orders WHERE order_id = %s AND status = "pending"
PendingOrders(order_id) ==
    {o \in payment_orders : o.order_id = order_id /\ o.status = "pending"}
\* the row of the order
OrderOf(order_id) == CHOOSE o \in payment_orders : o.order_id = order_id
\* an UPDATE of an order waits for the row lock of another transaction
OrderLocked(c, order_id) ==
    \E o \in ConnIds \ {c} : conns[o].pc # "idle" /\ order_id \in conns[o].locks
\* days of the order, with the default of its plan when it has none
OrderDays(plan, days) ==
    IF ~IsNull(days) THEN days
    ELSE IF Lower(plan) = S_monthly THEN Some(MonthlyDays)
    ELSE IF Lower(plan) = S_yearly THEN Some(YearlyDays)
    ELSE days
\* the licenses issued for an order
LicensesOf(order_id) ==
    {l \in licenses : l.user_hint \in {PurchaseHint(order_id), FreeHint(order_id)}}

\* create_payment: the order is inserted as pending and committed; an order
\* of amount 0 is completed by the same request
CreateOrder(c, order_id, email, plan, device_cap, days, amount) ==
    /\ conns[c].pc = "idle"
    /\ \A o \in payment_orders : o.order_id # order_id
    /\ payment_orders' =
          payment_orders \cup {OrderRow(order_id, email, plan, device_cap, days, amount)}
    /\ conns' = [conns EXCEPT ![c] =
          IF amount <= 0
          THEN [get_connection EXCEPT !.op = "create_payment", !.pc = "free_update",
                                      !.order_id = order_id]
          ELSE [get_connection EXCEPT !.op = "create_payment", !.res = "PayUrl",
                                      !.order_id = order_id]]
    /\ UNCHANGED <<licenses, device_activations, revoked_licenses,
                   activation_history, now>>

\* UPDATE payment_orders SET status = 'paid', ... WHERE order_id = %s
FreeUpdate(c) ==
    LET r == conns[c]
    IN  /\ r.pc = "free_update"
        /\ ~OrderLocked(c, r.order_id)
        /\ conns' = [conns EXCEPT ![c] =
              [r EXCEPT !.pc = "free_issue", !.locks = {r.order_id},
                        !.set_status = Some("paid")]]
        /\ UNCHANGED Store

\* license_manager.generate_license_with_email(..., user_hint=hint): the
\* license is inserted and committed on the manager's connection; the reply
\* is the new row, or fail when the insert failed
IssueForOrder(c, license_id, activation_code, hint, pc_next, fail) ==
    LET r == conns[c]
        o == OrderOf(r.order_id)
        out == generate_license_with_email(o.plan, o.email, o.device_cap,
                   OrderDays(o.plan, o.days), license_id, activation_code)
        new == CHOOSE l \in out.licenses : l.license_id = license_id
        row == [new EXCEPT !.user_hint = hint]
    IN  IF out.res = "Ok"
        THEN /\ licenses' = licenses \cup {row}
             /\ conns' = [conns EXCEPT ![c] =
                   [r EXCEPT !.pc = pc_next, !.lic = Some(row)]]
             /\ UNCHANGED <<device_activations, revoked_licenses,
                            activation_history, payment_orders, now>>
        ELSE /\ conns' = [conns EXCEPT ![c] =
                   [r EXCEPT !.pc = "idle", !.res = fail, !.locks = {},
                             !.set_status = NULL]]
             /\ UNCHANGED Store
\* the free order's license; conn.rollback() when it failed
FreeIssue(c, license_id, activation_code) ==
    /\ conns[c].pc = "free_issue"
    /\ IssueForOrder(c, license_id, activation_code, FreeHint(conns[c].order_id),
                     "free_record", "LicenseFailed")
\* UPDATE payment_orders SET license_id = %s, activation_code = %s WHERE order_id = %s
FreeRecord(c) ==
    /\ conns[c].pc = "free_record"
    /\ Goto(c, "free_commit")
    /\ UNCHANGED Store
\* conn.commit() of the handler: the order is paid and names its license
CommitOrder(c, res) ==
    LET r == conns[c]
    IN  /\ payment_orders' =
              {IF o.order_id = r.order_id
               THEN [o EXCEPT !.status = Val(r.set_status),
                              !.license_id = Some(Val(r.lic).license_id),
                              !.activation_code = Some(Val(r.lic).activation_code)]
               ELSE o : o \in payment_orders}
        /\ conns' = [conns EXCEPT ![c] =
              [r EXCEPT !.pc = "idle", !.res = res, !.locks = {}]]
        /\ UNCHANGED <<licenses, device_activations, revoked_licenses,
                       activation_history, now>>
FreeCommit(c) ==
    /\ conns[c].pc = "free_commit"
    /\ CommitOrder(c, "Free")

\* payment_notify: a notification of the gateway with a valid pid and
\* signature and trade_status TRADE_SUCCESS, for an order the gateway charged
BeginNotify(c, order_id) ==
    /\ conns[c].pc = "idle"
    /\ \E o \in payment_orders : o.order_id = order_id /\ o.amount > 0
    /\ conns' = [conns EXCEPT ![c] =
          [get_connection EXCEPT !.op = "payment_notify", !.pc = "notify_select",
                                 !.order_id = order_id]]
    /\ UNCHANGED Store
\* SELECT * FROM payment_orders WHERE order_id = %s AND status = "pending"
NotifySelect(c) ==
    /\ conns[c].pc = "notify_select"
    /\ IF PendingOrders(conns[c].order_id) = {} THEN Return(c, "success")
       ELSE Goto(c, "notify_update")
    /\ UNCHANGED Store
\* UPDATE payment_orders SET status = "paid", ... WHERE order_id = %s AND
\* status = "pending", then the test cur.rowcount == 0
NotifyUpdate(c) ==
    LET r == conns[c]
    IN  /\ r.pc = "notify_update"
        /\ ~OrderLocked(c, r.order_id)
        /\ conns' = [conns EXCEPT ![c] =
              IF PendingOrders(r.order_id) = {}
              THEN [r EXCEPT !.pc = "idle", !.res = "success"]
              ELSE [r EXCEPT !.pc = "notify_issue", !.locks = {r.order_id},
                             !.set_status = Some("paid")]]
        /\ UNCHANGED Store
\* the purchased license; return 'fail' when it failed
NotifyIssue(c, license_id, activation_code) ==
    /\ conns[c].pc = "notify_issue"
    /\ IssueForOrder(c, license_id, activation_code,
                     PurchaseHint(conns[c].order_id), "notify_record", "fail")
\* UPDATE payment_orders SET license_id = %s, activation_code = %s, email_sent = 1
NotifyRecord(c) ==
    /\ conns[c].pc = "notify_record"
    /\ Goto(c, "notify_commit")
    /\ UNCHANGED Store
NotifyCommit(c) ==
    /\ conns[c].pc = "notify_commit"
    /\ CommitOrder(c, "success")

PayEnv ==
    [license_ids |-> {"LIC1", "LIC2"}, codes |-> {"K1", "K2"},
     order_ids |-> OrderIds, amounts |-> Amounts, emails |-> {E_user},
     plans |-> {S_lifetime}, days |-> {NULL}, caps |-> {1}]
NextPay ==
    \/ \E c \in ConnIds, order_id \in PayEnv.order_ids, email \in PayEnv.emails,
          plan \in PayEnv.plans, device_cap \in PayEnv.caps, days \in PayEnv.days,
          amount \in PayEnv.amounts :
          CreateOrder(c, order_id, email, plan, device_cap, days, amount)
    \/ \E c \in ConnIds : FreeUpdate(c)
    \/ \E c \in ConnIds, lid \in PayEnv.license_ids, code \in PayEnv.codes :
          FreeIssue(c, lid, code)
    \/ \E c \in ConnIds : FreeRecord(c)
    \/ \E c \in ConnIds : FreeCommit(c)
    \/ \E c \in ConnIds, order_id \in PayEnv.order_ids : BeginNotify(c, order_id)
    \/ \E c \in ConnIds : NotifySelect(c)
    \/ \E c \in ConnIds : NotifyUpdate(c)
    \/ \E c \in ConnIds, lid \in PayEnv.license_ids, code \in PayEnv.codes :
          NotifyIssue(c, lid, code)
    \/ \E c \in ConnIds : NotifyRecord(c)
    \/ \E c \in ConnIds : NotifyCommit(c)
    \/ \E c \in ConnIds : StoreFault(c)

SpecPay == Init /\ [][NextPay]_vars

\* the step commits every write of the request on connection c
CommitsAll(c) ==
    LET r == conns[c]
    IN  /\ r.pc \in {"commit", "commit_license"}
        /\ conns'[c].pc = "idle"
        /\ Valid(conns'[c].res)
        /\ r.new_devices \subseteq device_activations'
        /\ activation_history' = activation_history \o r.new_history
        /\ r.put_record
              => \E x \in revoked_licenses' :
                    x.license_id = r.license_id /\ x.reason = r.reason
        /\ ~IsNull(r.set_status)
              => \A l \in licenses' :
                    l.license_id = r.license_id => l.status = Val(r.set_status)

C31_PositiveLimit ==
    \A l \in licenses : l.device_limit >= 1

\* C40: a step that changes the device_limit of a license to a positive
\* value leaves it with at most device_limit active devices.
C40_CapCoversActive ==
    [][\A l \in licenses, m \in licenses' :
          (/\ l.license_id = m.license_id
           /\ l.device_limit # m.device_limit
           /\ m.device_limit >= 1)
          => ActiveIn(device_activations', m.license_id) <= m.device_limit
      ]_vars

\* C36: an issue whose generated activation code is the code of an existing
\* license, with a license id that is free, still succeeds.
C36_CollisionRetried ==
    \A lid \in PurgeEnv.license_ids, code \in PurgeEnv.codes :
        (/\ \E l \in licenses : l.activation_code = code
         /\ \A l \in licenses : l.license_id # lid)
        => generate_license_with_email(S_lifetime, E_user, 1, NULL, lid, code).res = "Ok"

\* a code without its hyphens, and 15 characters in the 5-5-5 rendering
Dehyphenate(code) == SelectSeq(code, LAMBDA ch : ch # "-")
Hyphenate(chars) ==
    SubSeq(chars, 1, 5) \o <<"-">> \o SubSeq(chars, 6, 10) \o <<"-">>
        \o SubSeq(chars, 11, Len(chars))

\* C33: every generated code without its hyphens has 15 characters, the last
\* 4 of them the checksum of the first 11, and putting hyphens back after
\* positions 5 and 10 gives the code again.
C33_CodeRoundTrips ==
    \A l \in licenses :
        LET chars == Dehyphenate(l.activation_code)
        IN  /\ Len(chars) = 15
            /\ SubSeq(chars, 12, 15) = calculate_checksum(SubSeq(chars, 1, 11))
            /\ Hyphenate(chars) = l.activation_code
C33_TwoCodesIssued ==
    \E l \in licenses, m \in licenses :
        /\ l.activation_code # m.activation_code
        /\ l.activation_code \in GeneratedCodes
        /\ m.activation_code[5] # "A"

\* C34: the identifier of every generated code has 11 characters, and none of
\* its characters and of the checksum's is one of 0, 1, O, I and L.
C34_NoAmbiguousCharacter ==
    \A l \in licenses :
        LET chars == Dehyphenate(l.activation_code)
        IN  /\ Len(chars) = 11 + 4
            /\ \A i \in 1..Len(chars) :
                  /\ chars[i] \in Range(CHARSET)
                  /\ chars[i] \notin {"0", "1", "O", "I", "L"}
            /\ Cardinality(Range(CHARSET)) = 32

\* C32: whatever the interleaving of two first-time verifications of one
\* device on one license, the pair has at most one row and the license at
\* most one active row, and the history has at most one activation.
C32_OneRowPerDevice ==
    \A lid \in LicenseIds, d \in TwinEnv.devices :
        /\ Cardinality(DeviceRows(lid, d)) <= 1
        /\ ActiveDeviceCount(lid) <= 1
        /\ Cardinality({i \in 1..Len(activation_history) :
               activation_history[i] = HistoryRow(lid, "activate", d)}) <= 1
C32_SecondInsertRefused ==
    \E c \in ConnIds, o \in ConnIds :
        /\ conns[c].res = "Activated" /\ conns[o].res = "StoreError"
        /\ conns[c].device = conns[o].device
        /\ conns[c].count = Some(0) /\ conns[o].count = Some(0)
        /\ Cardinality(device_activations) = 1

\* C39: in every reachable state each device row and each history entry names
\* a license that exists, also when a purge is served between the statements
\* of a first-time verification.
C39_RowsReferenceLicense ==
    /\ \A x \in device_activations :
          \E l \in licenses : l.license_id = x.license_id
    /\ \A i \in 1..Len(activation_history) :
          \E l \in licenses : l.license_id = activation_history[i].license_id

\* C35: once a call of the manager has returned, on whatever path, the
\* connection it obtained is closed.
C35_ClosedAfterReturn ==
    \A c \in ConnIds : conns[c].pc = "idle" => ~conns[c].open

\* C37: whatever notifications are delivered for an order, repeated, retried
\* after a failure or concurrent, at most one license is issued for it.
C37_OneLicensePerOrder ==
    \A order_id \in OrderIds : Cardinality(LicensesOf(order_id)) <= 1

\* C38: in every committed state an order is paid exactly when a license
\* issued for it exists and the order records that license's id and code.
C38_PaidIffLicensed ==
    \A o \in payment_orders :
        /\ o.status = "paid" <=> LicensesOf(o.order_id) # {}
        /\ o.status = "paid"
             => \E l \in LicensesOf(o.order_id) :
                   /\ o.license_id = Some(l.license_id)
                   /\ o.activation_code = Some(l.activation_code)

====
